---------------------------- MODULE Spec2Model ----------------------------
(***************************************************************************)
(* A model of nova/virt/xenapi/vmops.py: the step decorator that records   *)
(* instance progress, spawn and its rollback, the resize/migration         *)
(* workflow, the guest-agent plugin call, the SimpleDH key exchange, disk  *)
(* attachment and the periodic poll of unconfirmed resizes.                *)
(*                                                                         *)
(* Each part of the driver has its own group of variables and its own      *)
(* specification (SpecSaga, SpecSpawn, ...); the variables of the other    *)
(* parts stay at their idle values under that specification.               *)
(***************************************************************************)
EXTENDS Integers, Sequences, FiniteSets, TLC

(***************************************************************************)
(* Bounds of the model                                                     *)
(***************************************************************************)
\* most steps a generic saga registers
MaxSteps == 8
\* most step calls of a generic saga run
MaxCalls == 9
\* largest root disk size (GB) of an instance or an instance type
MaxGb == 2
\* largest private exponent of a SimpleDH session (10 random bytes in the code)
MaxPrivate == 12
\* most lines of the last detail of a XenAPI failure
MaxLines == 2
\* most words of one line of a failure detail
MaxWords == 2
\* migration records in the database
MaxMigrations == 2
\* VDIs handed to _create_vm after the first one
MaxExtraVdis == 2
\* largest swap size of an instance type
MaxSwapMb == 1
\* largest ephemeral size of an instance type
MaxEphemeralGb == 1
\* most characters of a new admin password
MaxPasswordLen == 2
\* largest timeout of a polling loop, in ticks of the clock
MaxTimeout == 2
\* largest domid a VM record takes
MaxDomid == 2
\* last tick of the clock of the periodic tasks
MaxNow == 2
\* calls of _resize_instance on one disk
MaxResizes == 2
\* calls of rescue and unrescue on one instance
MaxRescueCalls == 3
\* segments of a version string
MaxSegments == 2
\* the numbers, exponents and moduli mod_exp is called with
MaxNum == 5
MaxExp == 6
MaxMod == 7
\* VM.clean_reboot tasks the hypervisor lists
MaxTasks == 2
\* calls of poll_rescued_instances in a run; the run ends with the last one
MaxPolls == 3

(***************************************************************************)
(* Program constants                                                       *)
(***************************************************************************)
\* vmops.py:80
RESIZE_TOTAL_STEPS == 5
\* vmops.py:1585
SimpleDH_base == 5

None == "None"
\* 1024 * 1024 * 1024 bytes; disk sizes are counted in MiB
GiB == 1024

(***************************************************************************)
(* Helpers                                                                 *)
(***************************************************************************)
Reverse(s) == [i \in 1..Len(s) |-> s[Len(s) + 1 - i]]

IsPrefix(s, t) == Len(s) <= Len(t) /\ \A i \in 1..Len(s) : s[i] = t[i]

NonDecreasing(s) == \A i \in 1..Len(s) : \A j \in i..Len(s) : s[i] <= s[j]

\* Python 2 round(float(num) / den * 100) for num >= 0, den > 0: the nearest
\* integer, a half rounded away from zero.
PyRoundPercent(num, den) == (200 * num + den) \div (2 * den)

VARIABLES
    \* ---- make_step_decorator (a saga on its own)
    step_total,         \* step_info['total']
    step_current,       \* step_info['current']
    step_progress,      \* the values persisted by db.instance_update, in order
    step_ran,           \* a step function has been called
    step_late,          \* a step was registered after a step function had run
    step_raised,        \* a step call raised: the run is over
    \* ---- spawn
    spawn_pc,           \* "define" | "run" | "rollback" | "done" | "raised"
    spawn_total,        \* step_info['total'] of spawn's decorator
    spawn_current,      \* step_info['current'] of spawn's decorator
    spawn_progress,     \* the progress values spawn persisted, in order
    steps_started,      \* the step functions called, in order
    undo_stack,         \* UndoManager.undo_stack
    undo_log,           \* the compensations run by the rollback, with outcome
    spawn_error,        \* the exception caught by spawn's except clause
    spawn_raised,       \* the exception that reached spawn's caller
    kernel_id,          \* instance.kernel_id is set
    ramdisk_id,         \* instance.ramdisk_id is set
    sr_vdis,            \* the VDIs create_image allocated that are on the SR
    destroy_attempted,  \* the VDIs undo_create_disks handed to destroy_vdi
    disks_failed_in,    \* the call of _create_disks that raised (None: none)
    fw_calls,           \* the firewall driver calls of the filter-setup
                        \* step, each with its outcome
    \* ---- migrate_disk_and_power_off and finish_migration
    mig_pc,             \* "migrate" | "finally" | "returned" | "raised" |
                        \* "finish" | "finished" | "finish_raised" |
                        \* "revert" | "reverted" | "revert_raised"
    mig_idx,            \* the position in the plan being run
    auto_disk_config,   \* instance['auto_disk_config']
    root_gb,            \* instance['root_gb']
    new_root_gb,        \* instance_type['root_gb']
    resize_instance,    \* the resize_instance argument of finish_migration
    vm_power,           \* power state of the source VM: "Running" | "Halted"
    vm_name_label,      \* name label of the source VM record
    template_vm_ref,    \* the snapshot (template) VM: None | "template" |
                        \* "destroyed"
    mig_calls,          \* the calls made, in order, each with its outcome
    mig_progress,       \* the progress values persisted, in order
    mig_vdis,           \* the disk descriptor returned (None before)
    mig_exc,            \* the operation whose exception is propagating
    \* ---- SimpleDH: two sessions, "A" and "B"
    dh_prime,           \* _prime (the same in both sessions)
    dh_private,         \* _private of each session
    dh_public,          \* _public of each session: <<>> for None, <<v>> once
                        \* get_public stored v
    dh_shared,          \* _shared of each session: <<>> for None, <<v>> once
                        \* compute_shared stored v
    \* ---- _make_plugin_call
    plug_pc,            \* "call" | "returned" | "raised"
    plug_transport,     \* what session.call_plugin did
    plug_result,        \* the value returned (None before)
    plug_raised,        \* the exception raised (None when none)
    \* ---- poll_unconfirmed_resizes
    migration_status,   \* status of each migration record
    instances,          \* the instance record of each migration
    poll_pc,            \* "idle" | "scan"
    poll_batch,         \* the migrations listed by the scan under way
    poll_idx,           \* position in poll_batch of the next iteration
    scan_log,           \* what the scan under way did, one entry per iteration
    confirmed_times,    \* per migration, the confirm_resize calls that returned
    \* ---- _create_vm / _attach_disks
    att_pc,             \* "create_vm" | "first_disk" | "swap" | "ephemeral"
                        \* | "others" | "done"
    disk_image_type,    \* "DISK_ISO" | "DISK_VHD"
    vdis,               \* the VDIs handed to _create_vm, in order
    swap_mb,            \* instance_type['swap']
    xenapi_generate_swap, \* FLAGS.xenapi_generate_swap
    ephemeral_gb,       \* instance_type['ephemeral_gb']
    first_vdi_ref,      \* vdi_uuid of the VDI chosen by _create_vm, 0 for None
    userdevice,         \* the next device number
    vbds,               \* the attachments made, in order
    att_idx,            \* position in vdis of the next "other" disk
    destroyed_vdis,     \* vdi_uuids destroyed by _attach_disks
    \* ---- snapshot
    snap_pc,            \* "create_snapshot" | "upload_image" | "finally" |
                        \* "returned" | "raised"
    snap_template_vm_ref,\* the template VM of snapshot: None | "template" | "destroyed"
    snap_calls,         \* the calls snapshot made, in order, each with its outcome
    snap_exc,           \* the operation whose exception is propagating
    \* ---- set_admin_password
    pwd_pc,             \* "key_init" | "password" | "returned" | "raised"
    new_pass,           \* the new password, a sequence of characters
    pwd_sent,           \* the agent calls made, in order, with their arguments
    pwd_resps,          \* the responses of the agent calls that returned, in order
    pwd_plaintext,      \* what was handed to dh.encrypt: <<>> before, <<text>> after
    pwd_exc,            \* the exception raised (None when none)
    \* ---- _make_agent_call
    agent_pc,           \* "call" | "returned" | "raised"
    agent_ret,          \* what _make_plugin_call gave back (ret)
    agent_result,       \* the value _make_agent_call returned
    agent_exc,          \* the exception _make_agent_call raised (None when none)
    \* ---- _boot_new_instance and _get_agent_version
    boot_pc,            \* "start" | "wait_running" | "wait_sleep" |
                        \* "get_agent_version" | "version_loop" |
                        \* "agent_update" | "inject_files" |
                        \* "set_admin_password" | "reset_network" |
                        \* "vcpu_weight" | "returned" | "raised"
    clock,              \* time.time(), in ticks
    running_timeout,    \* FLAGS.xenapi_running_timeout
    agent_version_timeout,\* FLAGS.agent_version_timeout
    boot_expiration,    \* expiration of the loop under way
    vm_running,         \* the VM has reached power_state.RUNNING
    vm_domid,           \* domid of the VM record
    ver_domid,          \* the local domid of _get_agent_version
    ver_last,           \* the last 'version' call: <<>> or <<call>>
    ver_earlier_good,   \* a call before the last one gave a version
    version_query,      \* "pending" | "none" | "found"
    agent_version,      \* the version found, <<>> when none
    agent_build,        \* the latest agent build: <<>> for None, <<build>>
    admin_pass,         \* instance.admin_pass is set
    injected_files,     \* "none" | "list" | "json_string"
    vcpu_weight,        \* inst_type['vcpu_weight'] is not None (once read)
    boot_calls,         \* the calls made outside the two loops, with outcome
    boot_polled,        \* the loops that polled since their last sleep
    boot_busy,          \* the loops that polled twice with no sleep between
    boot_exc,           \* the exception raised (None when none)
    \* ---- poll_rescued_instances and rescue
    resc_now,           \* utils.utcnow(), in ticks
    rescue_timeout,     \* the timeout handed to poll_rescued_instances
    poll_rescue_last_ran,\* self.poll_rescue_last_ran: <<>> for None, <<t>>
    hv_vms,             \* per instance: its rescue VM, its own VM and the boot lock
    resc_kinds,         \* what each call of the poll did: first | bail | scan
    resc_batch,         \* rescue_vms of the last call
    resc_log,           \* the teardowns of the last call, in order
    resc_exc,           \* the exception the last call raised (None when none)
    \* ---- poll_rebooting_instances
    rb_pc,              \* "idle" | "cancel" | "list" | "reboot" | "done" | "raised"
    rb_now,             \* utils.utcnow(), in ticks
    rb_timeout,         \* the timeout handed to poll_rebooting_instances
    rb_tasks,           \* creation times of the VM.clean_reboot tasks, by task_ref
    rb_idx,             \* position of the loop that is running
    rb_hung,            \* the instances the database returned as hung in rebooting
    rb_log,             \* task.cancel and compute_api.reboot calls, in order
    rb_exc,             \* whether the call ended by an exception
    \* ---- _resize_instance
    rs_root_gb,         \* instance.root_gb
    rs_virtual_size,    \* virtual size of the VDI
    rs_product_version, \* self._session.product_version[0]
    rs_results,         \* how each call of _resize_instance ended: "returned" | "raised"
    rs_log,             \* the resize calls made to the hypervisor
    \* ---- one call of a SimpleDH method
    me_call,            \* the method: "mod_exp" | "get_public" | "compute_shared"
    me_num,             \* num, or the public value of the peer (other)
    me_exp,             \* exp, or self._private
    me_mod,             \* mod, or self._prime
    me_result,          \* <<>> before the call returned, then <<value>>
    \* ---- cmp_version and the agent update decision
    cv_a,               \* a version string: its segments, each a sequence of digits
    cv_b,               \* the other version string
    cv_ret,             \* <<>>, then the values cmp_version returned
    cv_update,          \* <<>>, then the decision of _boot_new_instance
    \* ---- the loop of poll_unconfirmed_resizes, statement by statement
    ry_batch,           \* what each migration of the batch will meet
    ry_idx,             \* the migration the loop is at
    ry_pos,             \* the next statement of the iteration
    ry_trace,           \* sleeps, other green threads' turns and migrations processed
    ry_pc,              \* "loop" | "returned" | "raised"
    \* ---- rescue and unrescue of one instance
    bl_pc,              \* "idle" | "rescue" | "unrescue"
    bl_idx,             \* the next statement of the call in progress
    bl_bootlock,        \* blocked_operations of the original VM holds 'start'
    bl_rescue_vm,       \* a VM labelled <name>-rescue exists
    bl_power,           \* power state of the original VM: "Running" | "Halted"
    bl_last,            \* <<>>, or how the last call ended
    bl_count,           \* calls of rescue and unrescue so far
    \* ---- create_vm_step of spawn, called by two green threads for one name
    cvm_records,         \* the VM records of the host under the instance's name label, by creator
    cvm_pc,              \* per caller: "idle" | "_create_vm" | "later_steps" | "rollback" | "raised" | "returned"
    cvm_idx,             \* per caller: the next statement of _create_vm
    cvm_undo,            \* per caller: undo_create_vm is on the undo stack
    cvm_failed,          \* per caller: None, or the statement that raised
    \* ---- where the values of set_admin_password go
    sec_pc,             \* "key_init" | "encrypt" | "password" | "returned" | "raised"
    sec_new_pass,       \* new_pass
    sec_effects,        \* what was sent, logged and executed, with the values each holds
    sec_exc,            \* None, or the exception raised
    \* ---- one call of _destroy
    ds_pc,              \* "_destroy" | "returned" | "raised"
    ds_idx,             \* the next statement of _destroy
    ds_args,            \* vm_ref, shutdown, destroy_kernel_ramdisk, and what the instance and the VM are
    ds_calls,           \* the statements run so far, with how each ended
    ds_exc              \* None, or the exception raised

sagaVars == <<step_total, step_current, step_progress, step_ran, step_late,
              step_raised>>
spawnVars == <<spawn_pc, spawn_total, spawn_current, spawn_progress,
               steps_started, undo_stack, undo_log, spawn_error, spawn_raised,
               kernel_id, ramdisk_id,
              sr_vdis, destroy_attempted, disks_failed_in, fw_calls>>

migVars == <<mig_pc, mig_idx, auto_disk_config, root_gb, new_root_gb,
             resize_instance, vm_power, vm_name_label, template_vm_ref,
             mig_calls, mig_progress, mig_vdis, mig_exc>>

dhVars == <<dh_prime, dh_private, dh_public, dh_shared>>
plugVars == <<plug_pc, plug_transport, plug_result, plug_raised>>

pollVars == <<migration_status, instances, poll_pc, poll_batch, poll_idx,
              scan_log, confirmed_times>>

attVars == <<att_pc, disk_image_type, vdis, swap_mb, xenapi_generate_swap,
             ephemeral_gb, first_vdi_ref, userdevice, vbds, att_idx,
             destroyed_vdis>>

snapVars == <<snap_pc, snap_template_vm_ref, snap_calls, snap_exc>>

pwdVars == <<pwd_pc, new_pass, pwd_sent, pwd_resps, pwd_plaintext, pwd_exc>>

agentVars == <<agent_pc, agent_ret, agent_result, agent_exc>>

bootVars == <<boot_pc, clock, running_timeout, agent_version_timeout, boot_expiration, vm_running, vm_domid, ver_domid, ver_last, ver_earlier_good, version_query, agent_version, agent_build, admin_pass, injected_files, vcpu_weight, boot_calls, boot_polled, boot_busy, boot_exc>>

rescueVars == <<resc_now, rescue_timeout, poll_rescue_last_ran, hv_vms, resc_kinds, resc_batch, resc_log, resc_exc>>

rebootVars == <<rb_pc, rb_now, rb_timeout, rb_tasks, rb_idx, rb_hung, rb_log, rb_exc>>

resizeVars == <<rs_root_gb, rs_virtual_size, rs_product_version, rs_results, rs_log>>

modExpVars == <<me_call, me_num, me_exp, me_mod, me_result>>

cmpVars == <<cv_a, cv_b, cv_ret, cv_update>>

yieldVars == <<ry_batch, ry_idx, ry_pos, ry_trace, ry_pc>>

lockVars == <<bl_pc, bl_idx, bl_bootlock, bl_rescue_vm, bl_power, bl_last, bl_count>>

cvmVars == <<cvm_records, cvm_pc, cvm_idx, cvm_undo, cvm_failed>>

secVars == <<sec_pc, sec_new_pass, sec_effects, sec_exc>>

desVars == <<ds_pc, ds_idx, ds_args, ds_calls, ds_exc>>

vars == <<sagaVars,
          spawnVars,
          migVars,
          dhVars,
          plugVars,
          pollVars,
          attVars,
          snapVars,
          pwdVars,
          agentVars,
          bootVars,
          rescueVars,
          rebootVars,
          resizeVars,
          modExpVars,
          cmpVars,
          yieldVars,
          lockVars,
          cvmVars,
          secVars,
          desVars>>

(***************************************************************************)
(* Idle values: a part of the driver that a specification does not run.    *)
(***************************************************************************)
IdleSaga ==
    /\ step_total = 0
    /\ step_current = 0
    /\ step_progress = <<>>
    /\ step_ran = FALSE
    /\ step_late = FALSE
    /\ step_raised = FALSE

IdleSpawn ==
    /\ spawn_pc = "idle"
    /\ spawn_total = 0
    /\ spawn_current = 0
    /\ spawn_progress = <<>>
    /\ steps_started = <<>>
    /\ undo_stack = <<>>
    /\ undo_log = <<>>
    /\ spawn_error = None
    /\ spawn_raised = None
    /\ kernel_id = FALSE
    /\ ramdisk_id = FALSE
    /\ sr_vdis = {}
    /\ destroy_attempted = {}
    /\ disks_failed_in = None
    /\ fw_calls = <<>>

IdleMig ==
    /\ mig_pc = "idle"
    /\ mig_idx = 0
    /\ auto_disk_config = FALSE
    /\ root_gb = 0
    /\ new_root_gb = 0
    /\ resize_instance = FALSE
    /\ vm_power = "Halted"
    /\ vm_name_label = None
    /\ template_vm_ref = None
    /\ mig_calls = <<>>
    /\ mig_progress = <<>>
    /\ mig_vdis = None
    /\ mig_exc = None

Sessions == {"A", "B"}

IdleDH ==
    /\ dh_prime = 0
    /\ dh_private = [s \in Sessions |-> 0]
    /\ dh_public = [s \in Sessions |-> <<>>]
    /\ dh_shared = [s \in Sessions |-> <<>>]

IdlePlug ==
    /\ plug_pc = "idle"
    /\ plug_transport = None
    /\ plug_result = None
    /\ plug_raised = None

IdlePoll ==
    /\ migration_status = <<>>
    /\ instances = <<>>
    /\ poll_pc = "idle"
    /\ poll_batch = <<>>
    /\ poll_idx = 0
    /\ scan_log = <<>>
    /\ confirmed_times = <<>>

IdleAttach ==
    /\ att_pc = "done"
    /\ disk_image_type = None
    /\ vdis = <<>>
    /\ swap_mb = 0
    /\ xenapi_generate_swap = FALSE
    /\ ephemeral_gb = 0
    /\ first_vdi_ref = 0
    /\ userdevice = 0
    /\ vbds = <<>>
    /\ att_idx = 0
    /\ destroyed_vdis = {}

IdleSnap ==
    /\ snap_pc = "returned"
    /\ snap_template_vm_ref = None
    /\ snap_calls = <<>>
    /\ snap_exc = None

IdlePwd ==
    /\ pwd_pc = "returned"
    /\ new_pass = <<>>
    /\ pwd_sent = <<>>
    /\ pwd_resps = <<>>
    /\ pwd_plaintext = <<>>
    /\ pwd_exc = None

IdleAgent ==
    /\ agent_pc = "returned"
    /\ agent_ret = None
    /\ agent_result = None
    /\ agent_exc = None

IdleBoot ==
    /\ boot_pc = "returned"
    /\ clock = 0
    /\ running_timeout = 0
    /\ agent_version_timeout = 0
    /\ boot_expiration = 0
    /\ vm_running = FALSE
    /\ vm_domid = 0
    /\ ver_domid = 0
    /\ ver_last = <<>>
    /\ ver_earlier_good = FALSE
    /\ version_query = "pending"
    /\ agent_version = <<>>
    /\ agent_build = <<>>
    /\ admin_pass = FALSE
    /\ injected_files = "none"
    /\ vcpu_weight = FALSE
    /\ boot_calls = <<>>
    /\ boot_polled = {}
    /\ boot_busy = {}
    /\ boot_exc = None

IdleRescue ==
    /\ resc_now = 0
    /\ rescue_timeout = 0
    /\ poll_rescue_last_ran = <<>>
    /\ hv_vms = <<>>
    /\ resc_kinds = <<>>
    /\ resc_batch = <<>>
    /\ resc_log = <<>>
    /\ resc_exc = None

IdleReboot ==
    /\ rb_pc = "idle"
    /\ rb_now = 0
    /\ rb_timeout = 0
    /\ rb_tasks = <<>>
    /\ rb_idx = 0
    /\ rb_hung = <<>>
    /\ rb_log = <<>>
    /\ rb_exc = FALSE

IdleResize ==
    /\ rs_root_gb = 0
    /\ rs_virtual_size = 0
    /\ rs_product_version = 0
    /\ rs_results = <<>>
    /\ rs_log = <<>>

IdleModExp ==
    /\ me_call = None
    /\ me_num = 0
    /\ me_exp = 0
    /\ me_mod = 0
    /\ me_result = <<>>

IdleCmp ==
    /\ cv_a = <<>>
    /\ cv_b = <<>>
    /\ cv_ret = <<>>
    /\ cv_update = <<>>

IdleYield ==
    /\ ry_batch = <<>>
    /\ ry_idx = 0
    /\ ry_pos = 0
    /\ ry_trace = <<>>
    /\ ry_pc = "returned"

IdleLock ==
    /\ bl_pc = "idle"
    /\ bl_idx = 0
    /\ bl_bootlock = FALSE
    /\ bl_rescue_vm = FALSE
    /\ bl_power = "Halted"
    /\ bl_last = <<>>
    /\ bl_count = 0

IdleCvm ==
    /\ cvm_records = {}
    /\ cvm_pc = <<>>
    /\ cvm_idx = <<>>
    /\ cvm_undo = <<>>
    /\ cvm_failed = <<>>

IdleSec ==
    /\ sec_pc = "returned"
    /\ sec_new_pass = <<>>
    /\ sec_effects = <<>>
    /\ sec_exc = None

IdleDes ==
    /\ ds_pc = "returned"
    /\ ds_idx = 0
    /\ ds_args = <<>>
    /\ ds_calls = <<>>
    /\ ds_exc = None

FrameSaga ==
    UNCHANGED <<spawnVars, migVars, dhVars, plugVars,
                pollVars, attVars, snapVars, pwdVars,
                agentVars, bootVars, rescueVars, rebootVars,
                resizeVars, modExpVars, cmpVars, yieldVars, lockVars, cvmVars, secVars, desVars>>
FrameSpawn ==
    UNCHANGED <<sagaVars, migVars, dhVars, plugVars,
                pollVars, attVars, snapVars, pwdVars,
                agentVars, bootVars, rescueVars, rebootVars,
                resizeVars, modExpVars, cmpVars, yieldVars, lockVars, cvmVars, secVars, desVars>>
FrameMig ==
    UNCHANGED <<sagaVars, spawnVars, dhVars, plugVars,
                pollVars, attVars, snapVars, pwdVars,
                agentVars, bootVars, rescueVars, rebootVars,
                resizeVars, modExpVars, cmpVars, yieldVars, lockVars, cvmVars, secVars, desVars>>
FrameDH ==
    UNCHANGED <<sagaVars, spawnVars, migVars, plugVars,
                pollVars, attVars, snapVars, pwdVars,
                agentVars, bootVars, rescueVars, rebootVars,
                resizeVars, modExpVars, cmpVars, yieldVars, lockVars, cvmVars, secVars, desVars>>
FramePlug ==
    UNCHANGED <<sagaVars, spawnVars, migVars, dhVars,
                pollVars, attVars, snapVars, pwdVars,
                agentVars, bootVars, rescueVars, rebootVars,
                resizeVars, modExpVars, cmpVars, yieldVars, lockVars, cvmVars, secVars, desVars>>
FramePoll ==
    UNCHANGED <<sagaVars, spawnVars, migVars, dhVars,
                plugVars, attVars, snapVars, pwdVars,
                agentVars, bootVars, rescueVars, rebootVars,
                resizeVars, modExpVars, cmpVars, yieldVars, lockVars, cvmVars, secVars, desVars>>
FrameAttach ==
    UNCHANGED <<sagaVars, spawnVars, migVars, dhVars,
                plugVars, pollVars, snapVars, pwdVars,
                agentVars, bootVars, rescueVars, rebootVars,
                resizeVars, modExpVars, cmpVars, yieldVars, lockVars, cvmVars, secVars, desVars>>
FrameSnap ==
    UNCHANGED <<sagaVars, spawnVars, migVars, dhVars,
                plugVars, pollVars, attVars, pwdVars,
                agentVars, bootVars, rescueVars, rebootVars,
                resizeVars, modExpVars, cmpVars, yieldVars, lockVars, cvmVars, secVars, desVars>>
FramePwd ==
    UNCHANGED <<sagaVars, spawnVars, migVars, dhVars,
                plugVars, pollVars, attVars, snapVars,
                agentVars, bootVars, rescueVars, rebootVars,
                resizeVars, modExpVars, cmpVars, yieldVars, lockVars, cvmVars, secVars, desVars>>
FrameAgent ==
    UNCHANGED <<sagaVars, spawnVars, migVars, dhVars,
                plugVars, pollVars, attVars, snapVars,
                pwdVars, bootVars, rescueVars, rebootVars,
                resizeVars, modExpVars, cmpVars, yieldVars, lockVars, cvmVars, secVars, desVars>>
FrameBoot ==
    UNCHANGED <<sagaVars, spawnVars, migVars, dhVars,
                plugVars, pollVars, attVars, snapVars,
                pwdVars, agentVars, rescueVars, rebootVars,
                resizeVars, modExpVars, cmpVars, yieldVars, lockVars, cvmVars, secVars, desVars>>
FrameRescue ==
    UNCHANGED <<sagaVars, spawnVars, migVars, dhVars,
                plugVars, pollVars, attVars, snapVars,
                pwdVars, agentVars, bootVars, rebootVars,
                resizeVars, modExpVars, cmpVars, yieldVars, lockVars, cvmVars, secVars, desVars>>
FrameReboot ==
    UNCHANGED <<sagaVars, spawnVars, migVars, dhVars,
                plugVars, pollVars, attVars, snapVars,
                pwdVars, agentVars, bootVars, rescueVars,
                resizeVars, modExpVars, cmpVars, yieldVars, lockVars, cvmVars, secVars, desVars>>
FrameResize ==
    UNCHANGED <<sagaVars, spawnVars, migVars, dhVars,
                plugVars, pollVars, attVars, snapVars,
                pwdVars, agentVars, bootVars, rescueVars,
                rebootVars, modExpVars, cmpVars, yieldVars, lockVars, cvmVars, secVars, desVars>>
FrameModExp ==
    UNCHANGED <<sagaVars, spawnVars, migVars, dhVars,
                plugVars, pollVars, attVars, snapVars,
                pwdVars, agentVars, bootVars, rescueVars,
                rebootVars, resizeVars, cmpVars, yieldVars, lockVars, cvmVars, secVars, desVars>>
FrameCmp ==
    UNCHANGED <<sagaVars, spawnVars, migVars, dhVars,
                plugVars, pollVars, attVars, snapVars,
                pwdVars, agentVars, bootVars, rescueVars,
                rebootVars, resizeVars, modExpVars, yieldVars, lockVars, cvmVars, secVars, desVars>>
FrameYield ==
    UNCHANGED <<sagaVars, spawnVars, migVars, dhVars,
                plugVars, pollVars, attVars, snapVars,
                pwdVars, agentVars, bootVars, rescueVars,
                rebootVars, resizeVars, modExpVars, cmpVars, lockVars, cvmVars, secVars, desVars>>
FrameLock ==
    UNCHANGED <<sagaVars, spawnVars, migVars, dhVars,
                plugVars, pollVars, attVars, snapVars,
                pwdVars, agentVars, bootVars, rescueVars,
                rebootVars, resizeVars, modExpVars, cmpVars, yieldVars, cvmVars, secVars, desVars>>
FrameCvm ==
    UNCHANGED <<sagaVars, spawnVars, migVars, dhVars,
                plugVars, pollVars, attVars, snapVars,
                pwdVars, agentVars, bootVars, rescueVars,
                rebootVars, resizeVars, modExpVars, cmpVars, yieldVars, lockVars, secVars, desVars>>
FrameSec ==
    UNCHANGED <<sagaVars, spawnVars, migVars, dhVars,
                plugVars, pollVars, attVars, snapVars,
                pwdVars, agentVars, bootVars, rescueVars,
                rebootVars, resizeVars, modExpVars, cmpVars, yieldVars, lockVars, cvmVars, desVars>>
FrameDes ==
    UNCHANGED <<sagaVars, spawnVars, migVars, dhVars,
                plugVars, pollVars, attVars, snapVars,
                pwdVars, agentVars, bootVars, rescueVars,
                rebootVars, resizeVars, modExpVars, cmpVars,
                yieldVars, lockVars, cvmVars, secVars>>

(***************************************************************************)
(* make_step_decorator (vmops.py:98-145)                                   *)
(***************************************************************************)
\* a plausible slip: int() instead of round()
bump_progress_truncating(current, total) == (current * 100) \div total

\* bump_progress: the progress computed from the incremented current step
bump_progress(current, total) == PyRoundPercent(current, total)

InitSaga ==
    /\ step_total = 0
    /\ step_current = 0
    /\ step_progress = <<>>
    /\ step_ran = FALSE
    /\ step_late = FALSE
    /\ step_raised = FALSE

\* @step applied to a function: step_info['total'] += 1
step_decorator ==
    /\ ~step_raised
    /\ step_total < MaxSteps
    /\ step_total' = step_total + 1
    /\ step_late' = (step_late \/ step_ran)
    /\ UNCHANGED <<step_current, step_progress, step_ran, step_raised>>
    /\ FrameSaga

\* a decorated step is called, f returns and bump_progress persists
inner ==
    /\ ~step_raised
    /\ step_total >= 1
    /\ step_current < MaxCalls
    /\ step_current' = step_current + 1
    /\ step_progress' = Append(step_progress,
                               bump_progress(step_current + 1, step_total))
    /\ step_ran' = TRUE
    /\ UNCHANGED <<step_total, step_late, step_raised>>
    /\ FrameSaga

\* a decorated step is called and f raises: bump_progress is not reached
inner_raises ==
    /\ ~step_raised
    /\ step_total >= 1
    /\ step_current < MaxCalls
    /\ step_ran' = TRUE
    /\ step_raised' = TRUE
    /\ UNCHANGED <<step_total, step_current, step_progress, step_late>>
    /\ FrameSaga

\* a decorated step is called, f returns and db.instance_update raises inside
\* bump_progress, after the increment of current
inner_update_raises ==
    /\ ~step_raised
    /\ step_total >= 1
    /\ step_current < MaxCalls
    /\ step_current' = step_current + 1
    /\ step_ran' = TRUE
    /\ step_raised' = TRUE
    /\ UNCHANGED <<step_total, step_progress, step_late>>
    /\ FrameSaga

NextSaga ==
    \/ step_decorator
    \/ inner
    \/ inner_raises
    \/ inner_update_raises

\* the state SpecSaga starts from: its own part initialised, the others idle
StartSaga ==
    /\ InitSaga
    /\ IdleSpawn
    /\ IdleMig
    /\ IdleDH
    /\ IdlePlug
    /\ IdlePoll
    /\ IdleAttach
    /\ IdleSnap
    /\ IdlePwd
    /\ IdleAgent
    /\ IdleBoot
    /\ IdleRescue
    /\ IdleReboot
    /\ IdleResize
    /\ IdleModExp
    /\ IdleCmp
    /\ IdleYield
    /\ IdleLock
    /\ IdleCvm
    /\ IdleSec
    /\ IdleDes

SpecSaga == StartSaga /\ [][NextSaga]_vars

\* p is the integer nearest to 100 * k / n, a half going up
NearestPercent(p, k, n) ==
    /\ 2 * (p * n - 100 * k) <= n
    /\ 2 * (100 * k - p * n) < n

\* C1: when the N steps of a saga were all registered before any step ran,
\* the progress persisted by the k-th successful step call (1 <= k <= N) is
\* round(k / N * 100), and the persisted values never decrease and never
\* exceed 100.
C1_ProgressIsRoundedShare ==
    ~step_late =>
        LET n == IF Len(step_progress) <= step_total
                 THEN Len(step_progress) ELSE step_total
            persisted == SubSeq(step_progress, 1, n)
        IN /\ \A k \in 1..n : NearestPercent(persisted[k], k, step_total)
           /\ NonDecreasing(persisted)
           /\ \A k \in 1..n : persisted[k] <= 100
           /\ ~step_raised => Len(step_progress) = step_current

\* C1 witness: a saga of 8 steps registered up front that ran 3 of them
\* (12.5 rounds to 13, 37.5 to 38)
C1_Witness ==
    /\ ~step_late
    /\ step_total = 8
    /\ step_current = 3
    /\ step_progress = <<13, 25, 38>>

(***************************************************************************)
(* spawn (vmops.py:244-352) and utils.UndoManager                          *)
(***************************************************************************)
\* a plausible slip: vanity_step left out
StepOrder_without_vanity == <<"create_disks_step",
               "create_kernel_ramdisk_step", "create_vm_step",
               "prepare_security_group_filters_step", "boot_instance_step",
               "apply_security_group_filters_step">>

\* a plausible slip: the VM booted before the filters are prepared
StepOrder_boot_before_filters == <<"vanity_step", "create_disks_step",
               "create_kernel_ramdisk_step", "create_vm_step",
               "boot_instance_step", "prepare_security_group_filters_step",
               "apply_security_group_filters_step">>

\* the step functions in the order spawn calls them (vmops.py:339-349)
StepOrder == <<"vanity_step", "create_disks_step",
               "create_kernel_ramdisk_step", "create_vm_step",
               "prepare_security_group_filters_step", "boot_instance_step",
               "apply_security_group_filters_step">>

\* a plausible slip: the compensations of two steps exchanged
undo_registered_by_swapped(step) ==
    CASE step = "create_disks_step" -> "undo_create_kernel_ramdisk"
      [] step = "create_kernel_ramdisk_step" -> "undo_create_disks"
      [] step = "create_vm_step" -> "undo_create_vm"
      [] OTHER -> None

\* the compensation a step hands to undo_mgr.undo_with, as its last statement
undo_registered_by(step) ==
    CASE step = "create_disks_step" -> "undo_create_disks"
      [] step = "create_kernel_ramdisk_step" -> "undo_create_kernel_ramdisk"
      [] step = "create_vm_step" -> "undo_create_vm"
      [] OTHER -> None

\* whether the body of a step can raise: vanity_step is `pass`, and
\* create_kernel_ramdisk_step calls nothing when the instance has neither a
\* kernel nor a ramdisk
body_can_raise(step) ==
    CASE step = "vanity_step" -> FALSE
      [] step = "create_kernel_ramdisk_step" -> kernel_id \/ ramdisk_id
      [] OTHER -> TRUE

\* whether a compensation can raise: undo_create_kernel_ramdisk calls the
\* plugin only when a kernel or a ramdisk file was staged
undo_can_raise(undo) ==
    CASE undo = "undo_create_kernel_ramdisk" -> kernel_id \/ ramdisk_id
      [] OTHER -> TRUE

\* a plausible slip: the current step bumped whether or not the body returned
current_after_always_bumped(current, body_returned) == current + 1

\* inner (vmops.py:138-141): bump_progress, which increments the current
\* step, is reached only when f returned
current_after(current, body_returned) ==
    IF body_returned THEN current + 1 ELSE current

\* the VDIs VMHelper.create_image allocates for the instance
ImageVdis == {"root", "swap"}

\* the calls of _create_disks that can raise (vmops.py:234, 240)
CreateDisksCalls == {"create_image", "resize_instance"}

\* what is on the SR when _create_disks raised: the root-disk resize comes
\* after create_image returned its VDIs
vdis_after_failed_create(failed_in) ==
    IF failed_in = "resize_instance" THEN ImageVdis ELSE {}

FilterOutcomes == {"ok", "NotImplementedError", "Exception"}

FwCall(call, outcome) == [call |-> call, outcome |-> outcome]

\* a plausible slip: NotImplementedError tolerated from every call of the step
filter_exception_tolerated_any(call, outcome) ==
    outcome = "NotImplementedError"

\* the try/except of prepare_security_group_filters_step (vmops.py:317-324)
filter_exception_tolerated(call, outcome) ==
    call = "setup_basic_filtering" /\ outcome = "NotImplementedError"

\* the firewall calls of the step: prepare_instance_filter is reached when
\* setup_basic_filtering returned or raised what is tolerated
FilterRun(setup, prepare) ==
    IF setup = "ok" \/ filter_exception_tolerated("setup_basic_filtering",
                                                  setup)
    THEN <<FwCall("setup_basic_filtering", setup),
           FwCall("prepare_instance_filter", prepare)>>
    ELSE <<FwCall("setup_basic_filtering", setup)>>

FilterRuns ==
    {FilterRun(setup, prepare) : setup \in FilterOutcomes,
                                 prepare \in FilterOutcomes}

\* the step raises what its last call raised, unless that is tolerated
filters_step_raises(run) ==
    /\ run[Len(run)].outcome # "ok"
    /\ ~filter_exception_tolerated(run[Len(run)].call, run[Len(run)].outcome)

push_undo(stack, step) ==
    IF undo_registered_by(step) = None THEN stack
    ELSE Append(stack, undo_registered_by(step))

InitSpawn ==
    /\ spawn_pc = "define"
    /\ spawn_total = 0
    /\ spawn_current = 0
    /\ spawn_progress = <<>>
    /\ steps_started = <<>>
    /\ undo_stack = <<>>
    /\ undo_log = <<>>
    /\ spawn_error = None
    /\ spawn_raised = None
    /\ kernel_id \in BOOLEAN
    /\ ramdisk_id \in BOOLEAN
    /\ sr_vdis = {}
    /\ destroy_attempted = {}
    /\ disks_failed_in = None
    /\ fw_calls = <<>>

\* @step on one of spawn's seven nested functions; after the last one spawn
\* creates the UndoManager and enters its try block
spawn_decorate ==
    /\ spawn_pc = "define"
    /\ spawn_total' = spawn_total + 1
    /\ spawn_pc' = IF spawn_total + 1 = Len(StepOrder) THEN "run" ELSE "define"
    /\ UNCHANGED <<spawn_current, spawn_progress, steps_started, undo_stack,
                   undo_log, spawn_error, spawn_raised, kernel_id, ramdisk_id,
                   sr_vdis, destroy_attempted, disks_failed_in, fw_calls>>
    /\ FrameSpawn

NextStep == StepOrder[Len(steps_started) + 1]

\* what the body of the next step leaves when it returns: the VDIs of
\* create_disks_step, the firewall calls of the filter-setup step
BodyReturns ==
    /\ sr_vdis' = IF NextStep = "create_disks_step" THEN ImageVdis
                  ELSE sr_vdis
    /\ fw_calls' \in IF NextStep = "prepare_security_group_filters_step"
                     THEN {run \in FilterRuns : ~filters_step_raises(run)}
                     ELSE {fw_calls}
    /\ UNCHANGED <<destroy_attempted, disks_failed_in>>

\* the next step is called, its body returns (registering its compensation)
\* and bump_progress persists the progress
spawn_step ==
    /\ spawn_pc = "run"
    /\ steps_started' = Append(steps_started, NextStep)
    /\ BodyReturns
    /\ undo_stack' = push_undo(undo_stack, NextStep)
    /\ spawn_current' = current_after(spawn_current, TRUE)
    /\ spawn_progress' = Append(spawn_progress,
                                bump_progress(current_after(spawn_current,
                                                            TRUE),
                                              spawn_total))
    /\ spawn_pc' = IF Len(steps_started) + 1 = Len(StepOrder)
                   THEN "done" ELSE "run"
    /\ UNCHANGED <<spawn_total, undo_log, spawn_error, spawn_raised,
                   kernel_id, ramdisk_id>>
    /\ FrameSpawn

\* the next step is called and its body raises, before its undo_with: the
\* except clause of spawn catches it
spawn_step_raises ==
    /\ spawn_pc = "run"
    /\ body_can_raise(NextStep)
    /\ steps_started' = Append(steps_started, NextStep)
    /\ IF NextStep = "create_disks_step"
       THEN \E failed_in \in CreateDisksCalls :
               /\ disks_failed_in' = failed_in
               /\ sr_vdis' = vdis_after_failed_create(failed_in)
       ELSE UNCHANGED <<disks_failed_in, sr_vdis>>
    /\ fw_calls' \in IF NextStep = "prepare_security_group_filters_step"
                     THEN {run \in FilterRuns : filters_step_raises(run)}
                     ELSE {fw_calls}
    /\ spawn_current' = current_after(spawn_current, FALSE)
    /\ spawn_error' = [step |-> NextStep, raised_by |-> "body"]
    /\ spawn_pc' = "rollback"
    /\ UNCHANGED <<spawn_total, spawn_progress, undo_stack,
                   undo_log, spawn_raised, kernel_id, ramdisk_id,
                   destroy_attempted>>
    /\ FrameSpawn

\* the next step is called, its body returns and db.instance_update raises
\* inside bump_progress
spawn_step_update_raises ==
    /\ spawn_pc = "run"
    /\ steps_started' = Append(steps_started, NextStep)
    /\ BodyReturns
    /\ undo_stack' = push_undo(undo_stack, NextStep)
    /\ spawn_current' = current_after(spawn_current, TRUE)
    /\ spawn_error' = [step |-> NextStep, raised_by |-> "instance_update"]
    /\ spawn_pc' = "rollback"
    /\ UNCHANGED <<spawn_total, spawn_progress, undo_log, spawn_raised,
                   kernel_id, ramdisk_id>>
    /\ FrameSpawn

\* the compensation the rollback runs next: the stack is walked from its top
NextUndo == undo_stack[Len(undo_stack) - Len(undo_log)]

\* what a compensation does to the disks.  undo_create_vm (_destroy) destroys
\* VDIs of the VM it destroys.  undo_create_disks (vmops.py:261-272) skips a
\* VDI that VDI.get_by_uuid no longer finds and hands the others to
\* _safe_destroy_vdis, where a StorageError is logged; when it returns every
\* VDI it found was handed over, when it raises some were
UndoEffect(undo, outcome) ==
    CASE undo = "undo_create_vm" ->
             /\ sr_vdis' \in SUBSET sr_vdis
             /\ UNCHANGED destroy_attempted
      [] undo = "undo_create_disks" ->
             \E attempted \in SUBSET sr_vdis :
                 /\ outcome = "ok" => attempted = sr_vdis
                 /\ destroy_attempted' = attempted
                 /\ sr_vdis' \in {sr_vdis \ destroyed :
                                     destroyed \in SUBSET attempted}
      [] OTHER -> UNCHANGED <<sr_vdis, destroy_attempted>>

\* a rollback in which a failing compensation ends the rollback and its own
\* exception replaces the original one
rollback_undo_propagating(outcome) ==
    /\ spawn_pc = "rollback"
    /\ Len(undo_log) < Len(undo_stack)
    /\ outcome = "raises" => undo_can_raise(NextUndo)
    /\ undo_log' = Append(undo_log, [undo |-> NextUndo, outcome |-> outcome])
    /\ UndoEffect(NextUndo, outcome)
    /\ IF outcome = "raises"
       THEN /\ spawn_pc' = "raised"
            /\ spawn_raised' = [step |-> NextUndo, raised_by |-> "undo"]
       ELSE UNCHANGED <<spawn_pc, spawn_raised>>
    /\ UNCHANGED <<spawn_total, spawn_current, spawn_progress, steps_started,
                   undo_stack, spawn_error, kernel_id, ramdisk_id,
                   disks_failed_in, fw_calls>>
    /\ FrameSpawn

\* rollback_and_reraise runs one compensation; a compensation that raises is
\* logged and the rollback goes on
rollback_undo(outcome) ==
    /\ spawn_pc = "rollback"
    /\ Len(undo_log) < Len(undo_stack)
    /\ outcome = "raises" => undo_can_raise(NextUndo)
    /\ undo_log' = Append(undo_log, [undo |-> NextUndo, outcome |-> outcome])
    /\ UndoEffect(NextUndo, outcome)
    /\ UNCHANGED <<spawn_pc, spawn_total, spawn_current, spawn_progress,
                   steps_started, undo_stack, spawn_error, spawn_raised,
                   kernel_id, ramdisk_id, disks_failed_in, fw_calls>>
    /\ FrameSpawn

\* rollback_and_reraise re-raises the original exception once every
\* compensation was run
rollback_reraise ==
    /\ spawn_pc = "rollback"
    /\ Len(undo_log) = Len(undo_stack)
    /\ spawn_raised' = spawn_error
    /\ spawn_pc' = "raised"
    /\ UNCHANGED <<spawn_total, spawn_current, spawn_progress, steps_started,
                   undo_stack, undo_log, spawn_error, kernel_id, ramdisk_id,
                   sr_vdis, destroy_attempted, disks_failed_in, fw_calls>>
    /\ FrameSpawn

NextSpawn ==
    \/ spawn_decorate
    \/ spawn_step
    \/ spawn_step_raises
    \/ spawn_step_update_raises
    \/ \E outcome \in {"ok", "raises"} : rollback_undo(outcome)
    \/ rollback_reraise

\* the state SpecSpawn starts from: its own part initialised, the others idle
StartSpawn ==
    /\ InitSpawn
    /\ IdleSaga
    /\ IdleMig
    /\ IdleDH
    /\ IdlePlug
    /\ IdlePoll
    /\ IdleAttach
    /\ IdleSnap
    /\ IdlePwd
    /\ IdleAgent
    /\ IdleBoot
    /\ IdleRescue
    /\ IdleReboot
    /\ IdleResize
    /\ IdleModExp
    /\ IdleCmp
    /\ IdleYield
    /\ IdleLock
    /\ IdleCvm
    /\ IdleSec
    /\ IdleDes

SpecSpawn == StartSpawn /\ [][NextSpawn]_vars

\* the three compensations of spawn, the last registered first
UndosLastFirst == <<"undo_create_vm", "undo_create_kernel_ramdisk",
                    "undo_create_disks">>

\* the compensations registered once the bodies of the first j steps returned
\* (steps 2, 3 and 4 register one each), the last registered first
UndosAfter(j) ==
    LET c == IF j <= 1 THEN 0 ELSE IF j >= 4 THEN 3 ELSE j - 1
    IN SubSeq(UndosLastFirst, 4 - c, 3)

UndosRun == [i \in 1..Len(undo_log) |-> undo_log[i].undo]

\* C2: when step k of spawn raises, the compensations registered by steps
\* 1..k-1 (and by step k itself when it raised after its body returned) run in
\* the reverse order of their registration, no step after step k is started,
\* and the exception that reaches the caller is the one step k raised.
C2_RollbackInReverseOrder ==
    spawn_pc = "raised" =>
        LET k == Len(steps_started)
        IN /\ k \in 1..Len(StepOrder)
           /\ steps_started = SubSeq(StepOrder, 1, k)
           /\ UndosRun = UndosAfter(IF spawn_error.raised_by = "body"
                                    THEN k - 1 ELSE k)
           /\ spawn_raised = [step |-> StepOrder[k],
                              raised_by |-> spawn_error.raised_by]

\* C2 witness: the boot step raised and the three compensations ran
C2_Witness ==
    /\ spawn_pc = "raised"
    /\ spawn_raised = [step |-> "boot_instance_step", raised_by |-> "body"]
    /\ UndosRun = UndosLastFirst

\* C3: a compensation that raises during the rollback of spawn keeps no
\* compensation registered before it from running, and the rollback raises
\* nothing but the original error of the step.
C3_FailedUndoDoesNotStopRollback ==
    /\ spawn_pc = "raised" =>
          /\ \A i \in 1..Len(undo_log) :
                undo_log[i].outcome = "raises" =>
                    \A j \in 1..(Len(undo_stack) - i) :
                        \E m \in (i + 1)..Len(undo_log) :
                            undo_log[m].undo = undo_stack[j]
          /\ spawn_raised.raised_by \in {"body", "instance_update"}
          /\ spawn_raised = spawn_error
    /\ spawn_pc = "rollback" => spawn_raised = None

\* C3 witness: undo_create_vm raised, and undo_create_kernel_ramdisk and
\* undo_create_disks were run after it
C3_Witness ==
    /\ spawn_pc = "raised"
    /\ Len(undo_log) = 3
    /\ undo_log[1] = [undo |-> "undo_create_vm", outcome |-> "raises"]
    /\ undo_log[2].undo = "undo_create_kernel_ramdisk"
    /\ undo_log[3].undo = "undo_create_disks"

\* the step whose body raised (None when no body raised)
FailedStep ==
    IF spawn_pc \in {"rollback", "raised"} /\ spawn_error.raised_by = "body"
    THEN spawn_error.step ELSE None

\* C21 (as stated): when spawn has rolled back, every disk that was allocated
\* and is still on the SR is one the rollback tried to delete, also when the
\* disk-creation step failed after create_image had allocated its disks; and
\* a rollback that finds disks already gone raises nothing but the error of
\* the step.
C21_AsStated ==
    spawn_pc = "raised" =>
        /\ sr_vdis \subseteq destroy_attempted
        /\ spawn_raised = spawn_error

\* the root-disk resize raised after create_image had allocated the disks:
\* no compensation ran and the disks are still on the SR
C21_Witness ==
    /\ spawn_pc = "raised"
    /\ FailedStep = "create_disks_step"
    /\ disks_failed_in = "resize_instance"
    /\ undo_log = <<>>
    /\ sr_vdis = ImageVdis
    /\ destroy_attempted = {}

\* C22: spawn starts its steps in the order vanity, create disks, create
\* kernel/ramdisk, create VM record, prepare security-group filters, boot,
\* apply security-group filters, each one only after the one before it
\* returned and persisted its progress: the boot step starts only after the
\* VM record and the filter steps returned, the filters are applied only
\* after the boot step returned.
C22_StepsInOrder ==
    /\ IsPrefix(steps_started,
                <<"vanity_step", "create_disks_step",
                  "create_kernel_ramdisk_step", "create_vm_step",
                  "prepare_security_group_filters_step",
                  "boot_instance_step",
                  "apply_security_group_filters_step">>)
    /\ Len(spawn_progress) >= Len(steps_started) - 1
    /\ FailedStep # None => Len(spawn_progress) = Len(steps_started) - 1
    /\ \A k \in 1..Len(steps_started) :
          /\ steps_started[k] = "boot_instance_step" =>
                /\ \E i \in 1..(k - 1) : steps_started[i] = "create_vm_step"
                /\ \E i \in 1..(k - 1) :
                      steps_started[i] = "prepare_security_group_filters_step"
                /\ Len(spawn_progress) >= k - 1
          /\ steps_started[k] = "apply_security_group_filters_step" =>
                /\ steps_started[k - 1] = "boot_instance_step"
                /\ Len(spawn_progress) >= k - 1

\* a spawn that ran its seven steps
C22_Witness ==
    /\ spawn_pc = "done"
    /\ Len(steps_started) = 7
    /\ steps_started[6] = "boot_instance_step"
    /\ Len(spawn_progress) = 7

\* the firewall calls of the filter-setup step that raised NotImplementedError
NotImplementedBy ==
    {fw_calls[i].call : i \in {j \in 1..Len(fw_calls) :
                                  fw_calls[j].outcome = "NotImplementedError"}}

\* C23 (as stated): a NotImplementedError raised by the firewall driver
\* during the filter-setup step never fails the step.
C23_AsStated ==
    NotImplementedBy # {} => FailedStep # "prepare_security_group_filters_step"

\* C23: a NotImplementedError raised by setup_basic_filtering is tolerated:
\* prepare_instance_filter is called next and, when that returns, the step
\* counts as successful (its progress is persisted unless the update itself
\* fails, no rollback runs on its account); a NotImplementedError raised by
\* prepare_instance_filter fails the step like any other exception: spawn
\* rolls back and the boot step is not started.
C23_OnlyBasicFilteringTolerated ==
    fw_calls # <<>> =>
        LET last == fw_calls[Len(fw_calls)]
        IN /\ fw_calls[1].call = "setup_basic_filtering"
           /\ fw_calls[1].outcome \in {"ok", "NotImplementedError"} =>
                 /\ Len(fw_calls) = 2
                 /\ fw_calls[2].call = "prepare_instance_filter"
           /\ fw_calls[1].outcome = "Exception" => Len(fw_calls) = 1
           /\ (last.call = "prepare_instance_filter" /\ last.outcome = "ok") =>
                 /\ FailedStep # "prepare_security_group_filters_step"
                 /\ spawn_current >= 5
           /\ last.outcome # "ok" =>
                 /\ FailedStep = "prepare_security_group_filters_step"
                 /\ Len(steps_started) = 5
                 /\ Len(spawn_progress) = 4

\* setup_basic_filtering raised NotImplementedError and spawn went on to boot
C23_Witness ==
    /\ fw_calls = <<FwCall("setup_basic_filtering", "NotImplementedError"),
                    FwCall("prepare_instance_filter", "ok")>>
    /\ Len(steps_started) >= 6
    /\ steps_started[6] = "boot_instance_step"
    /\ spawn_progress[5] = 71

\* C24: a step of spawn whose body raises leaves the current step as it was
\* and persists nothing: with j steps completed before it, current is j and
\* the progress last persisted is round(j / 7 * 100).
C24_FailedStepBumpsNothing ==
    FailedStep # None =>
        LET j == Len(steps_started) - 1
        IN /\ spawn_current = j
           /\ Len(spawn_progress) = j
           /\ j >= 1
           /\ NearestPercent(spawn_progress[j], j, 7)

\* the boot step raised after five steps completed: 71 is the last progress
C24_Witness ==
    /\ spawn_pc = "raised"
    /\ FailedStep = "boot_instance_step"
    /\ spawn_current = 5
    /\ spawn_progress[Len(spawn_progress)] = 71

\* C25: in spawn the total of the saga is 7 from before the first step is
\* called and never changes afterwards, 0 <= current <= total always holds,
\* and the step that evaluates bump_progress finds total = 7, never 0.
C25_TotalFixedBeforeSteps ==
    /\ [](/\ steps_started # <<>> => spawn_total = 7
          /\ spawn_pc \notin {"idle", "define"} => spawn_total = 7
          /\ 0 <= spawn_current
          /\ spawn_current <= spawn_total)
    /\ [][/\ steps_started' # steps_started =>
                spawn_total = 7 /\ spawn_total' = 7
          /\ spawn_total' # spawn_total => steps_started' = <<>>]_vars

\* the seven steps ran with total 7
C25_Witness ==
    /\ spawn_pc = "done"
    /\ spawn_total = 7
    /\ spawn_current = 7
    /\ spawn_progress[7] = 100

(***************************************************************************)
(* migrate_disk_and_power_off (vmops.py:690-803), finish_migration         *)
(* (vmops.py:207-222)                                                      *)
(***************************************************************************)
\* a plausible slip: integer division, step / total_steps * 100 without float()
update_instance_progress_intdiv(step, total_steps) ==
    (step \div total_steps) * 100

\* _update_instance_progress: round(float(step) / total_steps * 100)
update_instance_progress(step, total_steps) ==
    PyRoundPercent(step, total_steps)

\* step 0, the VM lookup, the snapshot (step 1), the VDI and the SR path
migrate_prologue == <<"progress_0", "get_vm_opaque_ref", "create_snapshot",
                      "progress_1", "get_vdi_for_vm_safely", "get_sr_path">>

\* a plausible slip: the resized copy destroyed before it is transferred
shrink_steps_destroy_first == <<"shutdown", "progress_2", "resize_disk",
                                "progress_3", "destroy_vdi",
                                "migrate_vhd_new", "progress_4">>

\* resizing down: power off, copy and resize, transfer, clean up the copy
shrink_steps == <<"shutdown", "progress_2", "resize_disk", "progress_3",
                  "migrate_vhd_new", "progress_4", "destroy_vdi">>

\* a plausible slip: the VM powered off before the base copy is transferred
grow_steps_shutdown_first == <<"shutdown", "progress_2",
                               "migrate_vhd_base_copy", "progress_3",
                               "migrate_vhd_cow", "progress_4">>

\* resizing up: transfer the base copy, power off, transfer the COW
grow_steps == <<"migrate_vhd_base_copy", "progress_2", "shutdown",
                "progress_3", "migrate_vhd_cow", "progress_4">>

\* the test of vmops.py:728-729
resizing_down == auto_disk_config /\ root_gb > new_root_gb

migrate_plan ==
    migrate_prologue
        \o (IF resizing_down THEN shrink_steps ELSE grow_steps)
        \o <<"set_vm_name_label">>

\* a plausible slip: the progress of step 5 persisted before the VM is started
finish_plan_progress_first ==
    <<"move_disks">>
        \o (IF resize_instance THEN <<"resize_instance">> ELSE <<>>)
        \o <<"create_vm", "progress_5", "start">>

finish_plan ==
    <<"move_disks">>
        \o (IF resize_instance THEN <<"resize_instance">> ELSE <<>>)
        \o <<"create_vm", "start", "progress_5">>

\* finish_revert_migration (vmops.py:194-205): the lookup of the renamed
\* source VM, its name label set back, the VM started
revert_plan == <<"lookup_orig", "restore_name_label", "start_source">>

CurrentPlan ==
    CASE mig_pc = "migrate" -> migrate_plan
      [] mig_pc = "revert" -> revert_plan
      [] OTHER -> finish_plan

\* instance.name
instance_name == "instance"

\* _get_orig_vm_name_label (vmops.py:669-670)
get_orig_vm_name_label(name) == name \o "-orig"

\* VMHelper.lookup: the VM record carrying the name label, None when there is
\* none
lookup(name_label) == IF vm_name_label = name_label THEN "vm_ref" ELSE None

\* a plausible slip: the suffixed name label written back
reverted_name_label_keeps_suffix(name) == get_orig_vm_name_label(name)

\* the name label finish_revert_migration writes (vmops.py:202-203)
reverted_name_label(name) == name

CurrentOp == CurrentPlan[mig_idx]

ProgressOps == {"progress_0", "progress_1", "progress_2", "progress_3",
                "progress_4", "progress_5"}

ProgressStep(op) ==
    CASE op = "progress_0" -> 0
      [] op = "progress_1" -> 1
      [] op = "progress_2" -> 2
      [] op = "progress_3" -> 3
      [] op = "progress_4" -> 4
      [] op = "progress_5" -> 5

Called(op, outcome) == [op |-> op, outcome |-> outcome]

\* the plan moves on; at its end migrate_disk_and_power_off reaches its
\* finally clause and finish_migration returns
Advance ==
    IF mig_idx < Len(CurrentPlan)
    THEN /\ mig_idx' = mig_idx + 1
         /\ mig_pc' = mig_pc
    ELSE /\ mig_idx' = mig_idx
         /\ mig_pc' = CASE mig_pc = "migrate" -> "finally"
                        [] mig_pc = "revert" -> "reverted"
                        [] OTHER -> "finished"

\* the descriptor built by the branch taken (vmops.py:762, 791)
branch_vdis ==
    IF resizing_down
    THEN [base_copy |-> "new_uuid"]
    ELSE [base_copy |-> "base_copy_uuid", cow |-> "cow_uuid"]

InitMig ==
    /\ mig_pc = "migrate"
    /\ mig_idx = 1
    /\ auto_disk_config \in BOOLEAN
    /\ root_gb \in 0..MaxGb
    /\ new_root_gb \in 0..MaxGb
    /\ resize_instance \in BOOLEAN
    /\ vm_power \in {"Running", "Halted"}
    /\ vm_name_label = instance_name
    /\ template_vm_ref = None
    /\ mig_calls = <<>>
    /\ mig_progress = <<>>
    /\ mig_vdis = None
    /\ mig_exc = None

\* _update_instance_progress persists the progress of a step
mig_update_progress ==
    /\ mig_pc \in {"migrate", "finish"}
    /\ CurrentOp \in ProgressOps
    /\ mig_progress' = Append(mig_progress,
           update_instance_progress(ProgressStep(CurrentOp),
                                    RESIZE_TOTAL_STEPS))
    /\ mig_calls' = Append(mig_calls, Called(CurrentOp, "ok"))
    /\ Advance
    /\ UNCHANGED <<auto_disk_config, root_gb, new_root_gb, resize_instance,
                   vm_power, vm_name_label, template_vm_ref, mig_vdis,
                   mig_exc>>
    /\ FrameMig

\* _shutdown(hard=False): nothing is called for a halted VM; a XenAPI failure
\* of VM.clean_shutdown is logged and swallowed, the VM keeps running
mig_shutdown(outcome) ==
    /\ mig_pc = "migrate"
    /\ CurrentOp = "shutdown"
    /\ (outcome = "skipped") <=> (vm_power = "Halted")
    /\ vm_power' = IF outcome = "ok" THEN "Halted" ELSE vm_power
    /\ mig_calls' = Append(mig_calls, Called("shutdown", outcome))
    /\ Advance
    /\ UNCHANGED <<auto_disk_config, root_gb, new_root_gb, resize_instance,
                   vm_name_label, template_vm_ref, mig_progress, mig_vdis,
                   mig_exc>>
    /\ FrameMig

\* any other call of the plan returns; set_vm_name_label on the VM that the
\* lookup did not find cannot return
mig_call ==
    /\ mig_pc \in {"migrate", "finish", "revert"}
    /\ CurrentOp \notin ProgressOps \cup {"shutdown"}
    /\ CurrentOp = "restore_name_label" =>
          lookup(get_orig_vm_name_label(instance_name)) # None
    /\ mig_calls' = Append(mig_calls, Called(CurrentOp, "ok"))
    /\ template_vm_ref' = IF CurrentOp = "create_snapshot" THEN "template"
                          ELSE template_vm_ref
    /\ vm_name_label' =
          CASE CurrentOp = "set_vm_name_label" ->
                   get_orig_vm_name_label(instance_name)
            [] CurrentOp = "restore_name_label" ->
                   reverted_name_label(instance_name)
            [] OTHER -> vm_name_label
    /\ vm_power' = IF CurrentOp = "start_source" THEN "Running" ELSE vm_power
    /\ mig_vdis' = IF CurrentOp = "set_vm_name_label" THEN branch_vdis
                   ELSE mig_vdis
    /\ Advance
    /\ UNCHANGED <<auto_disk_config, root_gb, new_root_gb, resize_instance,
                   mig_progress, mig_exc>>
    /\ FrameMig

\* a call of the plan raises: migrate_disk_and_power_off goes to its finally
\* clause, finish_migration propagates the exception
mig_call_raises ==
    /\ mig_pc \in {"migrate", "finish", "revert"}
    /\ mig_calls' = Append(mig_calls, Called(CurrentOp, "raises"))
    /\ mig_exc' = CurrentOp
    /\ mig_pc' = CASE mig_pc = "migrate" -> "finally"
                    [] mig_pc = "revert" -> "revert_raised"
                    [] OTHER -> "finish_raised"
    /\ UNCHANGED <<mig_idx, auto_disk_config, root_gb, new_root_gb,
                   resize_instance, vm_power, vm_name_label, template_vm_ref,
                   mig_progress, mig_vdis>>
    /\ FrameMig

\* a plausible slip: _destroy called with its default arguments
template_destroy_args_default ==
    [shutdown |-> TRUE, destroy_kernel_ramdisk |-> TRUE]

\* the keyword arguments of the _destroy of a template VM (vmops.py:631-632,
\* 800-801)
template_destroy_args ==
    [shutdown |-> FALSE, destroy_kernel_ramdisk |-> FALSE]

\* the call of _destroy on the template VM, with its outcome
DestroyCalled(outcome) ==
    [op |-> "destroy_template", outcome |-> outcome,
     args |-> template_destroy_args]

\* the finally clause: the template VM, when there is one, is destroyed; then
\* the descriptor is returned or the exception propagates
mig_finally(outcome) ==
    /\ mig_pc = "finally"
    /\ outcome = "raises" => template_vm_ref = "template"
    /\ IF template_vm_ref = "template"
       THEN /\ mig_calls' = Append(mig_calls, DestroyCalled(outcome))
            /\ template_vm_ref' = IF outcome = "ok" THEN "destroyed"
                                  ELSE template_vm_ref
       ELSE UNCHANGED <<mig_calls, template_vm_ref>>
    /\ mig_exc' = IF outcome = "raises" THEN "destroy_template" ELSE mig_exc
    /\ mig_pc' = IF outcome = "raises" \/ mig_exc # None THEN "raised"
                 ELSE "returned"
    /\ UNCHANGED <<mig_idx, auto_disk_config, root_gb, new_root_gb,
                   resize_instance, vm_power, vm_name_label, mig_progress,
                   mig_vdis>>
    /\ FrameMig

\* the destination host is asked to finish the migration
finish_migration ==
    /\ mig_pc = "returned"
    /\ mig_pc' = "finish"
    /\ mig_idx' = 1
    /\ UNCHANGED <<auto_disk_config, root_gb, new_root_gb, resize_instance,
                   vm_power, vm_name_label, template_vm_ref, mig_calls,
                   mig_progress, mig_vdis, mig_exc>>
    /\ FrameMig

\* the source host is asked to revert the migration
finish_revert_migration ==
    /\ mig_pc \in {"returned", "finished"}
    /\ mig_pc' = "revert"
    /\ mig_idx' = 1
    /\ UNCHANGED <<auto_disk_config, root_gb, new_root_gb, resize_instance,
                   vm_power, vm_name_label, template_vm_ref, mig_calls,
                   mig_progress, mig_vdis, mig_exc>>
    /\ FrameMig

NextMig ==
    \/ mig_update_progress
    \/ \E outcome \in {"ok", "skipped", "failure_logged"} :
            mig_shutdown(outcome)
    \/ mig_call
    \/ mig_call_raises
    \/ \E outcome \in {"ok", "raises"} : mig_finally(outcome)
    \/ finish_migration
    \/ finish_revert_migration

\* the state SpecMig starts from: its own part initialised, the others idle
StartMig ==
    /\ InitMig
    /\ IdleSaga
    /\ IdleSpawn
    /\ IdleDH
    /\ IdlePlug
    /\ IdlePoll
    /\ IdleAttach
    /\ IdleSnap
    /\ IdlePwd
    /\ IdleAgent
    /\ IdleBoot
    /\ IdleRescue
    /\ IdleReboot
    /\ IdleResize
    /\ IdleModExp
    /\ IdleCmp
    /\ IdleYield
    /\ IdleLock
    /\ IdleCvm
    /\ IdleSec
    /\ IdleDes

SpecMig == StartMig /\ [][NextMig]_vars

CallsOf(op) == {i \in 1..Len(mig_calls) : mig_calls[i].op = op}

ReturnedBefore(op, i) ==
    \E j \in 1..(i - 1) : mig_calls[j] = Called(op, "ok")

\* C4: when the instance is resized down (auto_disk_config and root_gb larger
\* than the new root_gb) resize_disk has returned before any VHD transfer is
\* started; otherwise the transfer of the base copy has returned before the
\* shutdown of the source VM is issued.
C4_ResizeOrTransferFirst ==
    /\ (auto_disk_config /\ root_gb > new_root_gb) =>
          \A i \in CallsOf("migrate_vhd_new") \cup CallsOf("migrate_vhd_cow")
                    \cup CallsOf("migrate_vhd_base_copy") :
              ReturnedBefore("resize_disk", i)
    /\ ~(auto_disk_config /\ root_gb > new_root_gb) =>
          /\ \A i \in CallsOf("shutdown") :
                ReturnedBefore("migrate_vhd_base_copy", i)
          /\ CallsOf("resize_disk") = {}

\* C4 witness: a run of each kind cannot share a state; this one is the grow
\* branch after the shutdown was issued to a running VM
C4_Witness ==
    /\ ~(auto_disk_config /\ root_gb > new_root_gb)
    /\ \E i \in CallsOf("shutdown") : mig_calls[i].outcome = "ok"
    /\ mig_pc = "returned"

\* C10: a resize that succeeds persists the progress values 0, 20, 40, 60, 80,
\* 100 in this order, whichever branch is taken; a run that fails persists a
\* prefix of them.
C10_ProgressSequence ==
    /\ IsPrefix(mig_progress, <<0, 20, 40, 60, 80, 100>>)
    /\ mig_pc = "returned" => mig_progress = <<0, 20, 40, 60, 80>>
    /\ mig_pc = "finished" => mig_progress = <<0, 20, 40, 60, 80, 100>>

\* C10 witness: the shrink branch, finished on the destination
C10_Witness ==
    /\ mig_pc = "finished"
    /\ auto_disk_config /\ root_gb > new_root_gb
    /\ mig_progress[6] = 100

\* the source VM was running when a call of the operation started: it had not
\* been found halted, and no shutdown had halted it
StartedOnRunningVm(op) == CallsOf(op) # {} /\ vm_power = "Running"

\* C26 (as stated): whenever the transfer of the cow disk (grow branch) or
\* resize_disk (shrink branch) starts, the source VM is halted.
C26_AsStated ==
    mig_pc \in {"migrate", "finally", "returned", "raised"} =>
        /\ ~StartedOnRunningVm("migrate_vhd_cow")
        /\ ~StartedOnRunningVm("resize_disk")

\* VM.clean_shutdown failed, the failure was logged, and the cow disk of the
\* running VM was transferred
C26_Witness ==
    /\ Called("shutdown", "failure_logged") \in
           {mig_calls[i] : i \in 1..Len(mig_calls)}
    /\ \E i \in CallsOf("migrate_vhd_cow") : mig_calls[i].outcome = "ok"
    /\ vm_power = "Running"
    /\ mig_pc = "returned"

\* C28: finish_migration relinks the transferred disks, then resizes up when
\* asked to, then creates the VM record, then starts the VM: each of these
\* starts only after the one before it returned; progress 100 is persisted
\* only after the start returned, it is persisted when finish_migration
\* returns, and it is not persisted by a finish_migration that raised.
C28_FinishInOrder ==
    /\ \A i \in CallsOf("resize_instance") :
          resize_instance /\ ReturnedBefore("move_disks", i)
    /\ \A i \in CallsOf("create_vm") :
          /\ ReturnedBefore("move_disks", i)
          /\ resize_instance => ReturnedBefore("resize_instance", i)
    /\ \A i \in CallsOf("start") : ReturnedBefore("create_vm", i)
    /\ \A i \in CallsOf("progress_5") : ReturnedBefore("start", i)
    /\ (\E k \in 1..Len(mig_progress) : mig_progress[k] = 100) =>
          \E i \in CallsOf("start") : mig_calls[i].outcome = "ok"
    /\ mig_pc = "finished" => mig_progress[Len(mig_progress)] = 100
    /\ mig_pc = "finish_raised" =>
          \A k \in 1..Len(mig_progress) : mig_progress[k] # 100

\* a finish_migration with the up-resize that returned
C28_Witness ==
    /\ mig_pc = "finished"
    /\ resize_instance
    /\ \E i \in CallsOf("resize_instance") : mig_calls[i].outcome = "ok"
    /\ mig_progress[Len(mig_progress)] = 100

DiskOps == {"migrate_vhd_base_copy", "migrate_vhd_cow", "migrate_vhd_new",
            "resize_disk", "destroy_vdi", "move_disks", "resize_instance",
            "create_snapshot"}

\* C29: once migrate_disk_and_power_off has returned, the source VM record is
\* named instance.name followed by -orig; finish_revert_migration then finds
\* that record, makes no disk call, and when it returns the record is named
\* instance.name again and the VM was started.
C29_RevertRestoresName ==
    /\ mig_pc \in {"returned", "finish", "finished", "finish_raised"} =>
          vm_name_label = "instance-orig"
    /\ \A i \in CallsOf("restore_name_label") :
          /\ ReturnedBefore("lookup_orig", i)
          /\ \A j \in i..Len(mig_calls) : mig_calls[j].op \notin DiskOps
    /\ \A i \in CallsOf("lookup_orig") :
          \A j \in i..Len(mig_calls) : mig_calls[j].op \notin DiskOps
    /\ mig_pc = "reverted" =>
          /\ vm_name_label = "instance"
          /\ vm_power = "Running"
          /\ SubSeq(mig_calls, Len(mig_calls) - 2, Len(mig_calls)) =
                <<Called("lookup_orig", "ok"),
                  Called("restore_name_label", "ok"),
                  Called("start_source", "ok")>>

\* a migration in the shrink branch, reverted
C29_Witness ==
    /\ mig_pc = "reverted"
    /\ auto_disk_config /\ root_gb > new_root_gb
    /\ vm_name_label = "instance"
    /\ \E i \in CallsOf("set_vm_name_label") : mig_calls[i].outcome = "ok"

\* C30: in the shrink branch the resized copy is destroyed only after its
\* transfer returned, and it has been destroyed when the migration returns;
\* the descriptor returned then holds base_copy, the uuid of the resized
\* copy, and no cow; in the grow branch nothing is destroyed and the
\* descriptor holds base_copy and cow.
C30_CopyDestroyedAfterTransfer ==
    /\ \A i \in CallsOf("destroy_vdi") :
          /\ auto_disk_config /\ root_gb > new_root_gb
          /\ ReturnedBefore("migrate_vhd_new", i)
    /\ mig_pc = "returned" =>
          IF auto_disk_config /\ root_gb > new_root_gb
          THEN /\ mig_vdis = [base_copy |-> "new_uuid"]
               /\ \E i \in CallsOf("destroy_vdi") : mig_calls[i].outcome = "ok"
          ELSE mig_vdis = [base_copy |-> "base_copy_uuid", cow |-> "cow_uuid"]

\* a migration in the shrink branch that returned its descriptor after it
\* destroyed the copy
C30_Witness ==
    /\ mig_pc = "returned"
    /\ auto_disk_config /\ root_gb > new_root_gb
    /\ mig_vdis = [base_copy |-> "new_uuid"]
    /\ \E i \in CallsOf("destroy_vdi") : mig_calls[i].outcome = "ok"

(***************************************************************************)
(* SimpleDH (vmops.py:1573-1611)                                           *)
(***************************************************************************)
\* _prime is 2^107 - 1 in the code (vmops.py:1584), which TLC's 32-bit
\* integers cannot hold: the model runs the exchange with the smaller
\* Mersenne primes 2^3 - 1, 2^5 - 1 and 2^7 - 1.
SimpleDH_primes == {7, 31, 127}

RECURSIVE mod_exp_loop(_, _, _, _)
\* the while loop of mod_exp: square and multiply, from the lowest bit
mod_exp_loop(result, num, exp, mod) ==
    IF exp > 0
    THEN mod_exp_loop(IF exp % 2 = 1 THEN (result * num) % mod ELSE result,
                      (num * num) % mod, exp \div 2, mod)
    ELSE result

RECURSIVE mod_exp_loop_square_first(_, _, _, _)
\* a plausible slip: the number squared before it is multiplied in
mod_exp_loop_square_first(result, num, exp, mod) ==
    IF exp > 0
    THEN mod_exp_loop_square_first(
             IF exp % 2 = 1 THEN (result * ((num * num) % mod)) % mod
             ELSE result,
             (num * num) % mod, exp \div 2, mod)
    ELSE result

mod_exp_square_first(num, exp, mod) ==
    mod_exp_loop_square_first(1, num, exp, mod)

\* mod_exp(num, exp, mod)
mod_exp(num, exp, mod) == mod_exp_loop(1, num, exp, mod)

\* a plausible slip: number and exponent exchanged
compute_shared_value_swapped(other, private, prime) ==
    mod_exp(private, other, prime)

\* the value compute_shared stores: other ^ private mod prime
compute_shared_value(other, private, prime) == mod_exp(other, private, prime)

Peer(s) == IF s = "A" THEN "B" ELSE "A"

\* SimpleDH(): generate_private draws the private exponent
InitDH ==
    /\ dh_prime \in SimpleDH_primes
    /\ dh_private \in [Sessions -> 0..MaxPrivate]
    /\ dh_public = [s \in Sessions |-> <<>>]
    /\ dh_shared = [s \in Sessions |-> <<>>]

\* get_public
get_public(s) ==
    /\ dh_public[s] = <<>>
    /\ dh_public' = [dh_public EXCEPT
                        ![s] = <<mod_exp(SimpleDH_base, dh_private[s],
                                         dh_prime)>>]
    /\ UNCHANGED <<dh_prime, dh_private, dh_shared>>
    /\ FrameDH

\* compute_shared, called with the public value the peer sent
compute_shared(s) ==
    /\ dh_public[Peer(s)] # <<>>
    /\ dh_shared[s] = <<>>
    /\ dh_shared' = [dh_shared EXCEPT
                        ![s] = <<compute_shared_value(dh_public[Peer(s)][1],
                                                      dh_private[s],
                                                      dh_prime)>>]
    /\ UNCHANGED <<dh_prime, dh_private, dh_public>>
    /\ FrameDH

NextDH ==
    \/ \E s \in Sessions : get_public(s)
    \/ \E s \in Sessions : compute_shared(s)

\* the state SpecDH starts from: its own part initialised, the others idle
StartDH ==
    /\ InitDH
    /\ IdleSaga
    /\ IdleSpawn
    /\ IdleMig
    /\ IdlePlug
    /\ IdlePoll
    /\ IdleAttach
    /\ IdleSnap
    /\ IdlePwd
    /\ IdleAgent
    /\ IdleBoot
    /\ IdleRescue
    /\ IdleReboot
    /\ IdleResize
    /\ IdleModExp
    /\ IdleCmp
    /\ IdleYield
    /\ IdleLock
    /\ IdleCvm
    /\ IdleSec
    /\ IdleDes

SpecDH == StartDH /\ [][NextDH]_vars

\* C5: once two SimpleDH sessions have each computed the shared secret from
\* the other's public value, they hold the same secret.
C5_SharedSecretsAgree ==
    (dh_shared["A"] # <<>> /\ dh_shared["B"] # <<>>) =>
        dh_shared["A"][1] = dh_shared["B"][1]

\* C5 witness: two sessions with different private exponents after the
\* exchange, the secret being no trivial value
C5_Witness ==
    /\ dh_prime = 127
    /\ dh_private["A"] = 3
    /\ dh_private["B"] = 7
    /\ dh_shared["A"] # <<>>
    /\ dh_shared["B"] # <<>>
    /\ dh_shared["A"][1] \notin {0, 1}
    /\ dh_public["A"] # dh_public["B"]

(***************************************************************************)
(* _make_plugin_call (vmops.py:1510-1537)                                  *)
(***************************************************************************)
\* The text of a failure detail is a sequence of lines (what splitlines()
\* gives), a line a sequence of words; `'TIMEOUT:' in err_msg` is the
\* presence of the word.
Words == {"TIMEOUT:", "NOT IMPLEMENTED:", "oops"}

SeqsUpTo(S, n) == UNION {[1..k -> S] : k \in 0..n}

Lines == SeqsUpTo(Words, MaxWords)

Details == SeqsUpTo(Lines, MaxLines)

Contains(line, word) == \E i \in 1..Len(line) : line[i] = word

\* what session.call_plugin can do: return a value, or raise XenAPI.Failure
\* with this text as its last detail
Transports ==
    {[kind |-> "returns", last_detail |-> <<>>]}
        \cup {[kind |-> "failure", last_detail |-> d] : d \in Details}

\* a plausible slip: the first line taken instead of the last
err_msg_of_first_line(detail) == detail[1]

\* e.details[-1].splitlines()[-1]
err_msg_of(detail) == detail[Len(detail)]

\* a plausible slip: the two markers tested in the other order
plugin_failure_response_swapped(err_msg) ==
    IF Contains(err_msg, "NOT IMPLEMENTED:")
    THEN [returncode |-> "notimplemented", message |-> err_msg]
    ELSE IF Contains(err_msg, "TIMEOUT:")
    THEN [returncode |-> "timeout", message |-> err_msg]
    ELSE [returncode |-> "error", message |-> err_msg]

\* the except clause (vmops.py:1524-1536)
plugin_failure_response(err_msg) ==
    IF Contains(err_msg, "TIMEOUT:")
    THEN [returncode |-> "timeout", message |-> err_msg]
    ELSE IF Contains(err_msg, "NOT IMPLEMENTED:")
    THEN [returncode |-> "notimplemented", message |-> err_msg]
    ELSE [returncode |-> "error", message |-> err_msg]

InitPlug ==
    /\ plug_pc = "call"
    /\ plug_transport = None
    /\ plug_result = None
    /\ plug_raised = None

\* _make_plugin_call: the transport returns a value, which is returned as is
make_plugin_call_returns ==
    /\ plug_pc = "call"
    /\ plug_transport' = [kind |-> "returns", last_detail |-> <<>>]
    /\ plug_result' = "plugin_value"
    /\ plug_pc' = "returned"
    /\ UNCHANGED plug_raised
    /\ FramePlug

\* _make_plugin_call: the transport raises XenAPI.Failure; a last detail with
\* no line makes splitlines()[-1] raise IndexError inside the except clause
make_plugin_call_failure(t) ==
    /\ plug_pc = "call"
    /\ t.kind = "failure"
    /\ plug_transport' = t
    /\ IF Len(t.last_detail) = 0
       THEN /\ plug_raised' = "IndexError"
            /\ plug_pc' = "raised"
            /\ UNCHANGED plug_result
       ELSE /\ plug_result' = plugin_failure_response(err_msg_of(t.last_detail))
            /\ plug_pc' = "returned"
            /\ UNCHANGED plug_raised
    /\ FramePlug

\* the caller goes on to its next plugin call
plugin_call_again ==
    /\ plug_pc \in {"returned", "raised"}
    /\ plug_pc' = "call"
    /\ plug_transport' = None
    /\ plug_result' = None
    /\ plug_raised' = None
    /\ FramePlug

NextPlug ==
    \/ make_plugin_call_returns
    \/ \E t \in Transports : make_plugin_call_failure(t)
    \/ plugin_call_again

\* the state SpecPlug starts from: its own part initialised, the others idle
StartPlug ==
    /\ InitPlug
    /\ IdleSaga
    /\ IdleSpawn
    /\ IdleMig
    /\ IdleDH
    /\ IdlePoll
    /\ IdleAttach
    /\ IdleSnap
    /\ IdlePwd
    /\ IdleAgent
    /\ IdleBoot
    /\ IdleRescue
    /\ IdleReboot
    /\ IdleResize
    /\ IdleModExp
    /\ IdleCmp
    /\ IdleYield
    /\ IdleLock
    /\ IdleCvm
    /\ IdleSec
    /\ IdleDes

SpecPlug == StartPlug /\ [][NextPlug]_vars

Failed == plug_pc # "call" /\ plug_transport.kind = "failure"

ErrorContains(word) ==
    \E i \in 1..Len(plug_transport.last_detail) :
        Contains(plug_transport.last_detail[i], word)

LastLine == plug_transport.last_detail[Len(plug_transport.last_detail)]

MigrationIds == 1..MaxMigrations

RESIZE_VERIFY == "resize_verify"

\* an instance record as db.instance_get_by_uuid gives it; present = FALSE
\* stands for InstanceNotFound
NoInstance == [present |-> FALSE, vm_state |-> None, task_state |-> None]

InstanceRecords ==
    {NoInstance}
        \cup [present : {TRUE}, vm_state : {"active", "error"},
              task_state : {RESIZE_VERIFY, None}]

\* a plausible slip: the test of the ERROR vm_state left out
skip_reason_without_error_state(instance) ==
    IF ~instance.present THEN "not found"
    ELSE IF instance.task_state # RESIZE_VERIFY THEN "not RESIZE_VERIFY"
    ELSE None

\* a plausible slip: the test of the task_state inverted
skip_reason_task_state_inverted(instance) ==
    IF ~instance.present THEN "not found"
    ELSE IF instance.vm_state = "error" THEN "In ERROR state"
    ELSE IF instance.task_state = RESIZE_VERIFY THEN "not RESIZE_VERIFY"
    ELSE None

\* the three tests of an iteration (vmops.py:1340-1356): the reason for which
\* the migration is set to error, None when it is to be confirmed
skip_reason(instance) ==
    IF ~instance.present THEN "not found"
    ELSE IF instance.vm_state = "error" THEN "In ERROR state"
    ELSE IF instance.task_state # RESIZE_VERIFY THEN "not RESIZE_VERIFY"
    ELSE None

\* db.migration_get_all_unconfirmed: the migrations past the confirmation
\* window that are neither confirmed nor in error
unconfirmed(status) == status = "finished"

\* the status compute_api.confirm_resize leaves on the migration it confirmed
status_after_confirm == "confirmed"

RECURSIVE ListOf(_, _)
\* the migrations of a set as the list the database returns, by id
ListOf(ids, from) ==
    IF from > MaxMigrations THEN <<>>
    ELSE (IF from \in ids THEN <<from>> ELSE <<>>) \o ListOf(ids, from + 1)

\* every migration record is past the confirmation window and unconfirmed
InitPoll ==
    /\ migration_status = [m \in MigrationIds |-> "finished"]
    /\ instances \in [MigrationIds -> InstanceRecords]
    /\ poll_pc = "idle"
    /\ poll_batch = <<>>
    /\ poll_idx = 0
    /\ scan_log = <<>>
    /\ confirmed_times = [m \in MigrationIds |-> 0]

\* poll_unconfirmed_resizes is called and lists the unconfirmed migrations
poll_unconfirmed_resizes ==
    /\ poll_pc = "idle"
    /\ LET batch == ListOf({m \in MigrationIds :
                                unconfirmed(migration_status[m])}, 1)
       IN /\ poll_batch' = batch
          /\ poll_pc' = IF batch = <<>> THEN "idle" ELSE "scan"
    /\ poll_idx' = 1
    /\ scan_log' = <<>>
    /\ UNCHANGED <<migration_status, instances, confirmed_times>>
    /\ FramePoll

LogEntry(m, seen, did) == [id |-> m, seen |-> seen, did |-> did]

\* one iteration of the loop, from greenthread.sleep(0) to its end: the
\* instance is read; the migration is set to error, or confirm_resize is
\* called and returns ("ok") or raises ("raises", logged)
poll_iteration(outcome) ==
    /\ poll_pc = "scan"
    /\ LET m == poll_batch[poll_idx]
           instance == instances[m]
       IN IF skip_reason(instance) # None
          THEN /\ outcome = "ok"
               /\ migration_status' =
                      [migration_status EXCEPT ![m] = "error"]
               /\ scan_log' = Append(scan_log,
                                     LogEntry(m, instance, "set_error"))
               /\ UNCHANGED confirmed_times
          ELSE IF outcome = "ok"
          THEN /\ migration_status' =
                      [migration_status EXCEPT ![m] = status_after_confirm]
               /\ confirmed_times' =
                      [confirmed_times EXCEPT ![m] = confirmed_times[m] + 1]
               /\ scan_log' = Append(scan_log,
                                     LogEntry(m, instance, "confirm_ok"))
          ELSE /\ scan_log' = Append(scan_log,
                                     LogEntry(m, instance, "confirm_raised"))
               /\ UNCHANGED <<migration_status, confirmed_times>>
    /\ poll_idx' = poll_idx + 1
    /\ poll_pc' = IF poll_idx = Len(poll_batch) THEN "idle" ELSE "scan"
    /\ UNCHANGED <<instances, poll_batch>>
    /\ FramePoll

\* other green threads, running while the loop sleeps or between two scans:
\* an instance is deleted, falls into ERROR, or leaves RESIZE_VERIFY
instance_changes(m, record) ==
    /\ instances[m].present
    /\ record # instances[m]
    /\ \/ record = NoInstance
       \/ /\ record.present
          /\ record.vm_state \in {instances[m].vm_state, "error"}
          /\ record.task_state \in {instances[m].task_state, None}
    /\ instances' = [instances EXCEPT ![m] = record]
    /\ UNCHANGED <<migration_status, poll_pc, poll_batch, poll_idx, scan_log,
                   confirmed_times>>
    /\ FramePoll

NextPoll ==
    \/ poll_unconfirmed_resizes
    \/ \E outcome \in {"ok", "raises"} : poll_iteration(outcome)
    \/ \E m \in MigrationIds : \E record \in InstanceRecords :
            instance_changes(m, record)

\* the state SpecPoll starts from: its own part initialised, the others idle
StartPoll ==
    /\ InitPoll
    /\ IdleSaga
    /\ IdleSpawn
    /\ IdleMig
    /\ IdleDH
    /\ IdlePlug
    /\ IdleAttach
    /\ IdleSnap
    /\ IdlePwd
    /\ IdleAgent
    /\ IdleBoot
    /\ IdleRescue
    /\ IdleReboot
    /\ IdleResize
    /\ IdleModExp
    /\ IdleCmp
    /\ IdleYield
    /\ IdleLock
    /\ IdleCvm
    /\ IdleSec
    /\ IdleDes

SpecPoll == StartPoll /\ [][NextPoll]_vars

Confirms == {"confirm_ok", "confirm_raised"}

Vdi(uuid, type) == [vdi_uuid |-> uuid, vdi_type |-> type]

\* the lists of VDIs: the image's disk first ('root', or 'iso' for an ISO
\* image), then swap or other disks
VdiLists(image_type) ==
    LET first == IF image_type = "DISK_ISO" THEN "iso" ELSE "root"
    IN UNION {
         {[i \in 1..(n + 1) |->
              IF i = 1 THEN Vdi(1, first) ELSE Vdi(i, extra[i - 1])] :
            extra \in [1..n -> {"swap", "other"}]} : n \in 0..MaxExtraVdis}

RECURSIVE first_vdi_loop(_, _, _)
\* the loop of _create_vm (vmops.py:379-384): every VDI that is not swap is
\* assigned in turn, there is no break
first_vdi_loop(list, i, ref) ==
    IF i > Len(list) THEN ref
    ELSE first_vdi_loop(list, i + 1,
                        IF list[i].vdi_type # "swap" THEN list[i].vdi_uuid
                        ELSE ref)

\* an attachment: create_vbd of a VDI of the list, or of a disk made on the
\* spot (blank disk, generated swap, generated ephemeral)
Vbd(device, what, uuid) ==
    [userdevice |-> device, what |-> what, vdi_uuid |-> uuid]

InitAttach ==
    /\ att_pc = "create_vm"
    /\ disk_image_type \in {"DISK_ISO", "DISK_VHD"}
    /\ vdis \in VdiLists(disk_image_type)
    /\ swap_mb \in 0..MaxSwapMb
    /\ xenapi_generate_swap \in BOOLEAN
    /\ ephemeral_gb \in 0..MaxEphemeralGb
    /\ first_vdi_ref = 0
    /\ userdevice = 0
    /\ vbds = <<>>
    /\ att_idx = 0
    /\ destroyed_vdis = {}

\* _create_vm chooses first_vdi_ref and calls _attach_disks
create_vm_first_vdi ==
    /\ att_pc = "create_vm"
    /\ first_vdi_ref' = first_vdi_loop(vdis, 1, 0)
    /\ userdevice' = 0
    /\ att_pc' = "first_disk"
    /\ UNCHANGED <<disk_image_type, vdis, swap_mb, xenapi_generate_swap,
                   ephemeral_gb, vbds, att_idx, destroyed_vdis>>
    /\ FrameAttach

\* vmops.py:431-464: ISO: a blank disk at 0 and the CD at 2; otherwise
\* first_vdi_ref at 0; the next device is 3, resp. 2
attach_first_disk ==
    /\ att_pc = "first_disk"
    /\ IF disk_image_type = "DISK_ISO"
       THEN /\ vbds' = <<Vbd(userdevice, "blank", 0),
                         Vbd(2, "vdi", first_vdi_ref)>>
            /\ userdevice' = 2 + 1
       ELSE /\ vbds' = <<Vbd(userdevice, "vdi", first_vdi_ref)>>
            /\ userdevice' = 2
    /\ att_pc' = "swap"
    /\ UNCHANGED <<disk_image_type, vdis, swap_mb, xenapi_generate_swap,
                   ephemeral_gb, first_vdi_ref, att_idx, destroyed_vdis>>
    /\ FrameAttach

generate_swap == swap_mb # 0 /\ xenapi_generate_swap

\* vmops.py:466-472
attach_generated_swap ==
    /\ att_pc = "swap"
    /\ IF generate_swap
       THEN /\ vbds' = Append(vbds, Vbd(userdevice, "generated_swap", 0))
            /\ userdevice' = userdevice + 1
       ELSE UNCHANGED <<vbds, userdevice>>
    /\ att_pc' = "ephemeral"
    /\ UNCHANGED <<disk_image_type, vdis, swap_mb, xenapi_generate_swap,
                   ephemeral_gb, first_vdi_ref, att_idx, destroyed_vdis>>
    /\ FrameAttach

\* vmops.py:474-478, and the entry of the loop over vdis[1:]
attach_generated_ephemeral ==
    /\ att_pc = "ephemeral"
    /\ IF ephemeral_gb # 0
       THEN /\ vbds' = Append(vbds, Vbd(userdevice, "generated_ephemeral", 0))
            /\ userdevice' = userdevice + 1
       ELSE UNCHANGED <<vbds, userdevice>>
    /\ att_idx' = 2
    /\ att_pc' = IF Len(vdis) >= 2 THEN "others" ELSE "done"
    /\ UNCHANGED <<disk_image_type, vdis, swap_mb, xenapi_generate_swap,
                   ephemeral_gb, first_vdi_ref, destroyed_vdis>>
    /\ FrameAttach

\* one iteration of the loop over vdis[1:] (vmops.py:481-492)
attach_other_disk ==
    /\ att_pc = "others"
    /\ LET vdi == vdis[att_idx]
       IN IF generate_swap /\ vdi.vdi_type = "swap"
          THEN /\ destroyed_vdis' = destroyed_vdis \cup {vdi.vdi_uuid}
               /\ UNCHANGED <<vbds, userdevice>>
          ELSE /\ vbds' = Append(vbds, Vbd(userdevice, "vdi", vdi.vdi_uuid))
               /\ userdevice' = userdevice + 1
               /\ UNCHANGED destroyed_vdis
    /\ att_idx' = att_idx + 1
    /\ att_pc' = IF att_idx = Len(vdis) THEN "done" ELSE "others"
    /\ UNCHANGED <<disk_image_type, vdis, swap_mb, xenapi_generate_swap,
                   ephemeral_gb, first_vdi_ref>>
    /\ FrameAttach

NextAttach ==
    \/ create_vm_first_vdi
    \/ attach_first_disk
    \/ attach_generated_swap
    \/ attach_generated_ephemeral
    \/ attach_other_disk

\* the state SpecAttach starts from: its own part initialised, the others idle
StartAttach ==
    /\ InitAttach
    /\ IdleSaga
    /\ IdleSpawn
    /\ IdleMig
    /\ IdleDH
    /\ IdlePlug
    /\ IdlePoll
    /\ IdleSnap
    /\ IdlePwd
    /\ IdleAgent
    /\ IdleBoot
    /\ IdleRescue
    /\ IdleReboot
    /\ IdleResize
    /\ IdleModExp
    /\ IdleCmp
    /\ IdleYield
    /\ IdleLock
    /\ IdleCvm
    /\ IdleSec
    /\ IdleDes

SpecAttach == StartAttach /\ [][NextAttach]_vars

\* the scenario of the claim: not an ISO image, one root disk and one extra
\* disk, swap generated, one ephemeral disk
C9_Scenario ==
    /\ disk_image_type = "DISK_VHD"
    /\ vdis = <<Vdi(1, "root"), Vdi(2, "other")>>
    /\ generate_swap
    /\ ephemeral_gb # 0

\* no attachment at device 1; the devices from 2 upward are consecutive, in
\* the order of attachment, and distinct
C9_DeviceOneFreeAndConsecutive ==
    LET upper == SelectSeq(vbds, LAMBDA v : v.userdevice >= 2)
    IN /\ \A i \in 1..Len(vbds) : vbds[i].userdevice # 1
       /\ \A i \in 1..Len(upper) : upper[i].userdevice = i + 1

\* C9: in the scenario the attachments are root at device 0, swap at 2,
\* ephemeral at 3 and the extra disk at 4; in every call no disk is attached
\* at device 1 and the devices from 2 upward are consecutive and distinct.
C9_AsStated ==
    /\ (att_pc = "done" /\ C9_Scenario) =>
           vbds = <<Vbd(0, "vdi", 1), Vbd(2, "generated_swap", 0),
                    Vbd(3, "generated_ephemeral", 0), Vbd(4, "vdi", 2)>>
    /\ C9_DeviceOneFreeAndConsecutive

\* C9 witness: _attach_disks returned in the scenario of the claim
C9_Witness ==
    /\ att_pc = "done"
    /\ C9_Scenario
    /\ Len(vbds) = 4

(***************************************************************************)
(* snapshot (vmops.py:598-635)                                             *)
(***************************************************************************)
InitSnap ==
    /\ snap_pc = "create_snapshot"
    /\ snap_template_vm_ref = None
    /\ snap_calls = <<>>
    /\ snap_exc = None

\* _create_snapshot returns the template VM, or raises
snap_create_snapshot(outcome) ==
    /\ snap_pc = "create_snapshot"
    /\ snap_calls' = Append(snap_calls, Called("create_snapshot", outcome))
    /\ IF outcome = "ok"
       THEN /\ snap_template_vm_ref' = "template"
            /\ snap_pc' = "upload_image"
            /\ UNCHANGED snap_exc
       ELSE /\ snap_exc' = "create_snapshot"
            /\ snap_pc' = "finally"
            /\ UNCHANGED snap_template_vm_ref
    /\ FrameSnap

\* VMHelper.upload_image ships the snapshot to glance, or raises
snap_upload_image(outcome) ==
    /\ snap_pc = "upload_image"
    /\ snap_calls' = Append(snap_calls, Called("upload_image", outcome))
    /\ snap_exc' = IF outcome = "ok" THEN snap_exc ELSE "upload_image"
    /\ snap_pc' = "finally"
    /\ UNCHANGED snap_template_vm_ref
    /\ FrameSnap

\* the finally clause (vmops.py:629-632)
snap_finally(outcome) ==
    /\ snap_pc = "finally"
    /\ outcome = "raises" => snap_template_vm_ref = "template"
    /\ IF snap_template_vm_ref = "template"
       THEN /\ snap_calls' = Append(snap_calls, DestroyCalled(outcome))
            /\ snap_template_vm_ref' = IF outcome = "ok" THEN "destroyed"
                                       ELSE snap_template_vm_ref
       ELSE UNCHANGED <<snap_calls, snap_template_vm_ref>>
    /\ snap_exc' = IF outcome = "raises" THEN "destroy_template" ELSE snap_exc
    /\ snap_pc' = IF outcome = "raises" \/ snap_exc # None THEN "raised"
                  ELSE "returned"
    /\ FrameSnap

NextSnap ==
    \/ \E outcome \in {"ok", "raises"} : snap_create_snapshot(outcome)
    \/ \E outcome \in {"ok", "raises"} : snap_upload_image(outcome)
    \/ \E outcome \in {"ok", "raises"} : snap_finally(outcome)

\* the two users of a template VM, a migration and a snapshot, side by side
NextTemplate == NextMig \/ NextSnap

StartTemplate ==
    /\ InitMig
    /\ InitSnap
    /\ IdleSaga
    /\ IdleSpawn
    /\ IdleDH
    /\ IdlePlug
    /\ IdlePoll
    /\ IdleAttach
    /\ IdlePwd
    /\ IdleAgent
    /\ IdleBoot
    /\ IdleRescue
    /\ IdleReboot
    /\ IdleResize
    /\ IdleModExp
    /\ IdleCmp
    /\ IdleYield
    /\ IdleLock
    /\ IdleCvm
    /\ IdleSec
    /\ IdleDes

SpecTemplate == StartTemplate /\ [][NextTemplate]_vars

\* the destroys of the template VM in a list of calls
TemplateDestroys(calls) ==
    {i \in 1..Len(calls) : calls[i].op = "destroy_template"}

\* the snapshot was created, and exactly one destroy of the template VM was
\* called after it, without shutdown and without kernel/ramdisk removal; or
\* it was not created and no destroy was called
DestroyedIffCreated(calls) ==
    LET created == {i \in 1..Len(calls) :
                        calls[i] = Called("create_snapshot", "ok")}
    IN /\ \A i \in TemplateDestroys(calls) :
             /\ ~calls[i].args.shutdown
             /\ ~calls[i].args.destroy_kernel_ramdisk
             /\ \E j \in created : j < i
       /\ Cardinality(TemplateDestroys(calls)) = Cardinality(created)

\* C11: once migrate_disk_and_power_off or snapshot is over, by a return or by
\* an exception of any step, the template VM was destroyed (no shutdown, no
\* kernel/ramdisk removal) exactly when the snapshot had been created; before
\* the finally clause no destroy is called.
C11_TemplateAlwaysDestroyed ==
    /\ mig_pc \notin {"migrate", "finally"} => DestroyedIffCreated(mig_calls)
    /\ mig_pc \in {"migrate", "finally"} => TemplateDestroys(mig_calls) = {}
    /\ snap_pc \in {"returned", "raised"} => DestroyedIffCreated(snap_calls)
    /\ snap_pc \notin {"returned", "raised"} =>
           TemplateDestroys(snap_calls) = {}

\* C11 witness: the migration raised in the transfer of the COW disk and the
\* snapshot raised in the upload, both after their template VM was created,
\* and both destroyed it
C11_Witness ==
    /\ mig_pc = "raised"
    /\ mig_exc = "migrate_vhd_cow"
    /\ template_vm_ref = "destroyed"
    /\ snap_pc = "raised"
    /\ snap_exc = "upload_image"
    /\ snap_template_vm_ref = "destroyed"

(***************************************************************************)
(* set_admin_password (vmops.py:929-963)                                   *)
(***************************************************************************)
\* the returncodes an agent response can carry
ReturnCodes == {"D0", "0", "error", "timeout", "notimplemented"}

\* the messages of a response: a number, a number with the escaped CRLF old
\* Windows agents append, a text that is no number
Messages == {"7", "7\\r\\n", "oops"}

AgentResponses == [returncode : ReturnCodes, message : Messages]

\* resp['message'].replace('\\r\\n', '')
strip_crlf(message) == IF message = "7\\r\\n" THEN "7" ELSE message

\* int(text) returns for a numeral and raises ValueError otherwise
is_numeral(text) == text = "7"

Passwords == SeqsUpTo({"a", "\n"}, MaxPasswordLen)

\* a plausible slip: the success code of the password call expected of key_init
key_init_succeeded_zero(returncode) == returncode = "0"

\* vmops.py:944: the successful return code of key_init is 'D0'
key_init_succeeded(returncode) == returncode = "D0"

\* vmops.py:959: the successful return code of password is '0'
password_succeeded(returncode) == returncode = "0"

\* vmops.py:954: new_pass + '\n'
password_plaintext(pass) == Append(pass, "\n")

InitPwd ==
    /\ pwd_pc = "key_init"
    /\ new_pass \in Passwords
    /\ pwd_sent = <<>>
    /\ pwd_resps = <<>>
    /\ pwd_plaintext = <<>>
    /\ pwd_exc = None

\* key_init is sent and answered (vmops.py:940-954): on 'D0' the agent's
\* public value is parsed, the secret computed and the password encrypted
pwd_key_init(resp) ==
    /\ pwd_pc = "key_init"
    /\ pwd_sent' = Append(pwd_sent, [method |-> "key_init", args |-> "pub"])
    /\ pwd_resps' = Append(pwd_resps, resp)
    /\ IF ~key_init_succeeded(resp.returncode)
       THEN /\ pwd_exc' = "Failed to exchange keys"
            /\ pwd_pc' = "raised"
            /\ UNCHANGED pwd_plaintext
       ELSE IF ~is_numeral(strip_crlf(resp.message))
       THEN /\ pwd_exc' = "ValueError"
            /\ pwd_pc' = "raised"
            /\ UNCHANGED pwd_plaintext
       ELSE /\ pwd_plaintext' = <<password_plaintext(new_pass)>>
            /\ pwd_pc' = "password"
            /\ UNCHANGED pwd_exc
    /\ UNCHANGED new_pass
    /\ FramePwd

\* password is sent with the ciphertext and answered (vmops.py:956-963)
pwd_password(resp) ==
    /\ pwd_pc = "password"
    /\ pwd_sent' = Append(pwd_sent,
                          [method |-> "password", args |-> "enc_pass"])
    /\ pwd_resps' = Append(pwd_resps, resp)
    /\ IF ~password_succeeded(resp.returncode)
       THEN /\ pwd_exc' = "Failed to update password"
            /\ pwd_pc' = "raised"
       ELSE /\ pwd_pc' = "returned"
            /\ UNCHANGED pwd_exc
    /\ UNCHANGED <<new_pass, pwd_plaintext>>
    /\ FramePwd

\* _make_agent_call raises instead of returning a response: the message was
\* sent, the exception propagates
pwd_agent_call_raises ==
    /\ pwd_pc \in {"key_init", "password"}
    /\ pwd_sent' = Append(pwd_sent,
                          IF pwd_pc = "key_init"
                          THEN [method |-> "key_init", args |-> "pub"]
                          ELSE [method |-> "password", args |-> "enc_pass"])
    /\ pwd_exc' = "agent call raised"
    /\ pwd_pc' = "raised"
    /\ UNCHANGED <<new_pass, pwd_resps, pwd_plaintext>>
    /\ FramePwd

NextPwd ==
    \/ \E resp \in AgentResponses : pwd_key_init(resp)
    \/ \E resp \in AgentResponses : pwd_password(resp)
    \/ pwd_agent_call_raises

StartPwd ==
    /\ InitPwd
    /\ IdleSaga
    /\ IdleSpawn
    /\ IdleMig
    /\ IdleDH
    /\ IdlePlug
    /\ IdlePoll
    /\ IdleAttach
    /\ IdleSnap
    /\ IdleAgent
    /\ IdleBoot
    /\ IdleRescue
    /\ IdleReboot
    /\ IdleResize
    /\ IdleModExp
    /\ IdleCmp
    /\ IdleYield
    /\ IdleLock
    /\ IdleCvm
    /\ IdleSec
    /\ IdleDes

SpecPwd == StartPwd /\ [][NextPwd]_vars

\* C12: key_init is the first message; the password message is sent at most
\* once, after key_init, and only when key_init answered 'D0'; any other
\* answer of key_init raises with no password message sent; an answer of the
\* password message other than '0' raises; the text encrypted is the new
\* password followed by one newline.
C12_KeyInitThenPassword ==
    /\ Len(pwd_sent) <= 2
    /\ \A i \in 1..Len(pwd_sent) :
          pwd_sent[i].method = IF i = 1 THEN "key_init" ELSE "password"
    /\ Len(pwd_sent) = 2 => pwd_resps[1].returncode = "D0"
    /\ (Len(pwd_resps) >= 1 /\ pwd_resps[1].returncode # "D0") =>
          /\ pwd_pc = "raised"
          /\ Len(pwd_sent) = 1
    /\ (Len(pwd_resps) = 2 /\ pwd_resps[2].returncode # "0") =>
          pwd_pc = "raised"
    /\ pwd_pc = "returned" =>
          /\ Len(pwd_resps) = 2
          /\ pwd_resps[2].returncode = "0"
    /\ pwd_plaintext # <<>> =>
          LET text == pwd_plaintext[1]
          IN /\ Len(text) = Len(new_pass) + 1
             /\ text[Len(text)] = "\n"
             /\ SubSeq(text, 1, Len(new_pass)) = new_pass
    /\ Len(pwd_sent) = 2 => pwd_plaintext # <<>>

\* C12 witness: a password that already ends in a newline was set
C12_Witness ==
    /\ pwd_pc = "returned"
    /\ new_pass = <<"a", "\n">>
    /\ pwd_plaintext = <<(<<"a", "\n", "\n">>)>>
    /\ pwd_resps[1].message = "7\\r\\n"

(***************************************************************************)
(* _make_agent_call (vmops.py:1492-1508)                                   *)
(***************************************************************************)
NoResponse == [returncode |-> None, message |-> None]

\* what session.call_plugin can return for an agent call: a dict, a string
\* that is the JSON text of a response, a string that is JSON of something
\* else, a string that is not JSON, a value that is no string
PluginValues ==
    {[kind |-> k, resp |-> r] :
        k \in {"dict", "json_response"}, r \in AgentResponses}
        \cup {[kind |-> k, resp |-> NoResponse] :
                k \in {"json_other", "not_json", "non_string"}}

\* json.loads(ret): the decoded value, TypeError for a value that is no
\* string, ValueError for a string that is not JSON
json_loads(ret) ==
    CASE ret.kind = "json_response" ->
             [outcome |-> "value", kind |-> "dict", resp |-> ret.resp]
      [] ret.kind = "json_other" ->
             [outcome |-> "value", kind |-> "other", resp |-> NoResponse]
      [] ret.kind = "not_json" ->
             [outcome |-> "ValueError", kind |-> None, resp |-> NoResponse]
      [] OTHER ->
             [outcome |-> "TypeError", kind |-> None, resp |-> NoResponse]

\* vmops.py:1507-1508
unable_to_deserialize ==
    [returncode |-> "error", message |-> "unable to deserialize response"]

\* vmops.py:1499-1508: the value handed back for ret, or the exception
agent_call_outcome(ret) ==
    IF ret.kind = "dict"
    THEN [raised |-> None, kind |-> "dict", resp |-> ret.resp]
    ELSE LET loaded == json_loads(ret)
         IN CASE loaded.outcome = "value" ->
                     [raised |-> None, kind |-> loaded.kind,
                      resp |-> loaded.resp]
              [] loaded.outcome = "TypeError" ->
                     [raised |-> None, kind |-> "dict",
                      resp |-> unable_to_deserialize]
              [] OTHER ->
                     [raised |-> loaded.outcome, kind |-> None,
                      resp |-> NoResponse]

InitAgent ==
    /\ agent_pc = "call"
    /\ agent_ret = None
    /\ agent_result = None
    /\ agent_exc = None

\* the transport returns a value
agent_call_returns(value) ==
    /\ agent_pc = "call"
    /\ agent_ret' = value
    /\ LET out == agent_call_outcome(value)
       IN IF out.raised # None
          THEN /\ agent_exc' = out.raised
               /\ agent_pc' = "raised"
               /\ UNCHANGED agent_result
          ELSE /\ agent_result' = [kind |-> out.kind, resp |-> out.resp]
               /\ agent_pc' = "returned"
               /\ UNCHANGED agent_exc
    /\ FrameAgent

\* the transport raises XenAPI.Failure: _make_plugin_call turns it into a
\* dict, or raises IndexError when the last detail has no line
agent_call_failure(detail) ==
    /\ agent_pc = "call"
    /\ agent_ret' = [kind |-> "failure", last_detail |-> detail]
    /\ IF detail = <<>>
       THEN /\ agent_exc' = "IndexError"
            /\ agent_pc' = "raised"
            /\ UNCHANGED agent_result
       ELSE /\ agent_result' =
                  [kind |-> "dict",
                   resp |-> plugin_failure_response(err_msg_of(detail))]
            /\ agent_pc' = "returned"
            /\ UNCHANGED agent_exc
    /\ FrameAgent

\* the caller makes its next agent call
agent_call_again ==
    /\ agent_pc \in {"returned", "raised"}
    /\ agent_pc' = "call"
    /\ agent_ret' = None
    /\ agent_result' = None
    /\ agent_exc' = None
    /\ FrameAgent

NextAgent ==
    \/ \E value \in PluginValues : agent_call_returns(value)
    \/ \E detail \in Details : agent_call_failure(detail)
    \/ agent_call_again

StartAgent ==
    /\ InitAgent
    /\ IdleSaga
    /\ IdleSpawn
    /\ IdleMig
    /\ IdleDH
    /\ IdlePlug
    /\ IdlePoll
    /\ IdleAttach
    /\ IdleSnap
    /\ IdlePwd
    /\ IdleBoot
    /\ IdleRescue
    /\ IdleReboot
    /\ IdleResize
    /\ IdleModExp
    /\ IdleCmp
    /\ IdleYield
    /\ IdleLock
    /\ IdleCvm
    /\ IdleSec
    /\ IdleDes

SpecAgent == StartAgent /\ [][NextAgent]_vars

\* C20: whatever the transport does (a dict, a JSON string, a string that is
\* not JSON, a value that is no string, a failure), _make_agent_call raises
\* nothing and returns a response with a returncode and a message.
C20_AsStated ==
    /\ agent_pc # "raised"
    /\ agent_pc = "returned" => agent_result.kind = "dict"

\* C20 witness: the transport returned a string that is not JSON
C20_Witness ==
    /\ agent_pc = "raised"
    /\ agent_ret.kind = "not_json"
    /\ agent_exc = "ValueError"

(***************************************************************************)
(* cmp_version (vmops.py:83-95), _boot_new_instance (vmops.py:494-575),    *)
(* _get_agent_version (vmops.py:877-915)                                   *)
(***************************************************************************)
RECURSIVE cmp_version_loop(_, _, _)
\* the loop over zip(a, b), then the comparison of the lengths; a version is
\* the sequence of the numbers between its dots
cmp_version_loop(a, b, i) ==
    IF i > Len(a) \/ i > Len(b) THEN Len(a) - Len(b)
    ELSE IF a[i] - b[i] # 0 THEN a[i] - b[i]
    ELSE cmp_version_loop(a, b, i + 1)

cmp_version(a, b) == cmp_version_loop(a, b, 1)

\* the version strings an agent reports: the empty string, 1.0, 1.10
Versions == {<<>>, <<1, 0>>, <<1, 10>>}

\* the answers to a 'version' call; crlf: the message ends in an escaped CRLF
VersionResponses ==
    [returncode : {"0", "error", "timeout"},
     message : [version : Versions, crlf : BOOLEAN]]

\* _call (vmops.py:886-895): None (<<>>) unless the returncode is '0', else
\* the message without the escaped CRLF
version_call_result(resp) ==
    IF resp.returncode # "0" THEN <<>> ELSE resp.message.version

\* the latest agent build of the database: none, or version 1.9
AgentBuilds == {<<>>, <<[version |-> <<1, 9>>]>>}

bootInputs == <<running_timeout, agent_version_timeout, agent_build,
                admin_pass, injected_files, vcpu_weight>>

bootVersion == <<ver_domid, ver_last, ver_earlier_good, version_query,
                 agent_version>>

LoopPcs == {"wait_running", "wait_sleep", "version_loop"}

\* vmops.py:516
boot_wait_continues(now, expiration) == now < expiration

\* a plausible slip: a loop that the expiration does not end
version_loop_continues_regardless(now, expiration) == TRUE

\* vmops.py:903
version_loop_continues(now, expiration) == now < expiration

\* the dom_id of an agent call is the domid of the VM record read by
\* _make_plugin_call for that call (vmops.py:1517-1518), not the local domid
\* of _get_agent_version
call_domid(record_domid, local_domid) == record_domid

\* vmops.py:531-532
agent_update_due(version, build) ==
    /\ version # <<>>
    /\ build # <<>>
    /\ cmp_version(version, build[1].version) < 0

\* a plausible slip: the password set whether or not an agent answered
password_due_without_agent(password, no_agent) == password

\* vmops.py:540, 561
password_due(password, no_agent) == password /\ ~no_agent

\* a loop polls: it is busy-waiting if it polled before with no sleep since
BootPolls(loop) ==
    /\ boot_busy' = IF loop \in boot_polled THEN boot_busy \cup {loop}
                    ELSE boot_busy
    /\ boot_polled' = boot_polled \cup {loop}

BootGoes(next, calls, exc) ==
    /\ boot_pc' = next
    /\ boot_calls' = calls
    /\ boot_exc' = exc

\* a call of a collaborator, which returns or raises
BootCall(op, outcome, next) ==
    IF outcome = "raises"
    THEN BootGoes("raised", Append(boot_calls, Called(op, "raises")), op)
    ELSE BootGoes(next, Append(boot_calls, Called(op, outcome)), boot_exc)

InitBoot ==
    /\ boot_pc = "start"
    /\ clock = 0
    /\ running_timeout \in 1..MaxTimeout
    /\ agent_version_timeout \in 1..MaxTimeout
    /\ boot_expiration = 0
    /\ vm_running = FALSE
    /\ vm_domid = 1
    /\ ver_domid = 0
    /\ ver_last = <<>>
    /\ ver_earlier_good = FALSE
    /\ version_query = "pending"
    /\ agent_version = <<>>
    /\ agent_build \in AgentBuilds
    /\ admin_pass \in BOOLEAN
    /\ injected_files \in {"none", "list", "json_string"}
    /\ vcpu_weight = FALSE
    /\ boot_calls = <<>>
    /\ boot_polled = {}
    /\ boot_busy = {}
    /\ boot_exc = None

\* vmops.py:497-515: the VM is started, the agent build looked up, the
\* expiration of the boot wait computed
boot_start(outcome) ==
    /\ boot_pc = "start"
    /\ BootCall("start", outcome, "wait_running")
    /\ boot_expiration' = clock + running_timeout
    /\ UNCHANGED <<clock, vm_running, vm_domid, bootInputs, bootVersion,
                   boot_polled, boot_busy>>
    /\ FrameBoot

\* vmops.py:516-519: the state of the VM is polled
boot_wait_poll ==
    /\ boot_pc = "wait_running"
    /\ boot_wait_continues(clock, boot_expiration)
    /\ BootPolls("boot_wait")
    /\ BootGoes(IF vm_running THEN "get_agent_version" ELSE "wait_sleep",
                boot_calls, boot_exc)
    /\ UNCHANGED <<clock, boot_expiration, vm_running, vm_domid, bootInputs,
                   bootVersion>>
    /\ FrameBoot

\* vmops.py:521: greenthread.sleep(0.5)
boot_wait_sleep ==
    /\ boot_pc = "wait_sleep"
    /\ boot_polled' = boot_polled \ {"boot_wait"}
    /\ BootGoes("wait_running", boot_calls, boot_exc)
    /\ UNCHANGED <<clock, boot_expiration, vm_running, vm_domid, bootInputs,
                   bootVersion, boot_busy>>
    /\ FrameBoot

\* vmops.py:516: the wait is over, the VM running or not
boot_wait_expired ==
    /\ boot_pc = "wait_running"
    /\ ~boot_wait_continues(clock, boot_expiration)
    /\ BootGoes("get_agent_version", boot_calls, boot_exc)
    /\ UNCHANGED <<clock, boot_expiration, vm_running, vm_domid, bootInputs,
                   bootVersion, boot_polled, boot_busy>>
    /\ FrameBoot

\* vmops.py:897-902: the VM record is read (which may raise), the local domid
\* kept and the expiration of the version loop computed
boot_get_agent_version(outcome) ==
    /\ boot_pc = "get_agent_version"
    /\ IF outcome = "raises"
       THEN /\ BootGoes("raised",
                        Append(boot_calls, Called("get_vm_record", "raises")),
                        "get_vm_record")
            /\ UNCHANGED <<ver_domid, boot_expiration>>
       ELSE /\ BootGoes("version_loop", boot_calls, boot_exc)
            /\ ver_domid' = vm_domid
            /\ boot_expiration' = clock + agent_version_timeout
    /\ UNCHANGED <<clock, vm_running, vm_domid, bootInputs, ver_last,
                   ver_earlier_good, version_query, agent_version,
                   boot_polled, boot_busy>>
    /\ FrameBoot

\* the last call gave a version
LastCallGood == ver_last # <<>> /\ ver_last[1].version # <<>>

\* vmops.py:903-913: one iteration: the 'version' call is made and answered;
\* a version ends the loop, otherwise the VM record is read again
boot_version_call(resp) ==
    /\ boot_pc = "version_loop"
    /\ version_loop_continues(clock, boot_expiration)
    /\ BootPolls("agent_version")
    /\ ver_earlier_good' = (ver_earlier_good \/ LastCallGood)
    /\ ver_last' = <<[dom_id |-> call_domid(vm_domid, ver_domid),
                      record_domid |-> vm_domid,
                      returncode |-> resp.returncode,
                      version |-> version_call_result(resp)]>>
    /\ IF version_call_result(resp) # <<>>
       THEN /\ agent_version' = version_call_result(resp)
            /\ version_query' = "found"
            /\ BootGoes("agent_update", boot_calls, boot_exc)
            /\ UNCHANGED ver_domid
       ELSE /\ ver_domid' = vm_domid
            /\ BootGoes("version_loop", boot_calls, boot_exc)
            /\ UNCHANGED <<agent_version, version_query>>
    /\ UNCHANGED <<clock, boot_expiration, vm_running, vm_domid, bootInputs>>
    /\ FrameBoot

\* the agent call of an iteration raises instead of answering
boot_version_call_raises ==
    /\ boot_pc = "version_loop"
    /\ version_loop_continues(clock, boot_expiration)
    /\ BootGoes("raised", Append(boot_calls, Called("version", "raises")),
                "version")
    /\ UNCHANGED <<clock, boot_expiration, vm_running, vm_domid, bootInputs,
                   bootVersion, boot_polled, boot_busy>>
    /\ FrameBoot

\* vmops.py:903, 915: the expiration is reached, None is returned
boot_version_expired ==
    /\ boot_pc = "version_loop"
    /\ ~version_loop_continues(clock, boot_expiration)
    /\ version_query' = "none"
    /\ agent_version' = <<>>
    /\ BootGoes("agent_update", boot_calls, boot_exc)
    /\ UNCHANGED <<clock, boot_expiration, vm_running, vm_domid, bootInputs,
                   ver_domid, ver_last, ver_earlier_good, boot_polled,
                   boot_busy>>
    /\ FrameBoot

\* what the steps after the version query leave alone
BootRest ==
    UNCHANGED <<clock, boot_expiration, vm_running, vm_domid, bootInputs,
                bootVersion, boot_polled, boot_busy>>

\* vmops.py:531-536
boot_agent_update(outcome) ==
    /\ boot_pc = "agent_update"
    /\ IF agent_update_due(agent_version, agent_build)
       THEN BootCall("agent_update", outcome, "inject_files")
       ELSE /\ outcome = "ok"
            /\ BootGoes("inject_files", boot_calls, boot_exc)
    /\ BootRest
    /\ FrameBoot

\* vmops.py:542-557: a JSON string is decoded, but the loop runs over the
\* string itself and the unpacking of its first character raises ValueError
boot_inject_files(outcome) ==
    /\ boot_pc = "inject_files"
    /\ CASE injected_files = "none" ->
                /\ outcome = "ok"
                /\ BootGoes("set_admin_password", boot_calls, boot_exc)
         [] injected_files = "list" ->
                BootCall("inject_file", outcome, "set_admin_password")
         [] OTHER ->
                /\ outcome = "raises"
                /\ BootGoes("raised", boot_calls, "ValueError")
    /\ BootRest
    /\ FrameBoot

\* vmops.py:559-563
boot_set_admin_password(outcome) ==
    /\ boot_pc = "set_admin_password"
    /\ IF password_due(admin_pass, version_query = "none")
       THEN BootCall("set_admin_password", outcome, "reset_network")
       ELSE /\ outcome = "ok"
            /\ BootGoes("reset_network", boot_calls, boot_exc)
    /\ BootRest
    /\ FrameBoot

\* vmops.py:565-567
boot_reset_network(outcome) ==
    /\ boot_pc = "reset_network"
    /\ BootCall("reset_network", outcome, "vcpu_weight")
    /\ BootRest
    /\ FrameBoot

\* vmops.py:569-575: the instance type is read, it has a VCPU weight or not
boot_set_vcpu_weight(weight, outcome) ==
    /\ boot_pc = "vcpu_weight"
    /\ vcpu_weight' = weight
    /\ IF weight
       THEN BootCall("set_vcpu_weight", outcome, "returned")
       ELSE /\ outcome = "ok"
            /\ BootGoes("returned", boot_calls, boot_exc)
    /\ UNCHANGED <<clock, boot_expiration, vm_running, vm_domid,
                   running_timeout, agent_version_timeout, agent_build,
                   admin_pass, injected_files, bootVersion, boot_polled,
                   boot_busy>>
    /\ FrameBoot

\* time passes while a loop waits
boot_tick ==
    /\ boot_pc \in LoopPcs
    /\ clock < boot_expiration
    /\ clock' = clock + 1
    /\ UNCHANGED <<boot_pc, boot_expiration, vm_running, vm_domid,
                   bootInputs, bootVersion, boot_calls, boot_polled,
                   boot_busy, boot_exc>>
    /\ FrameBoot

\* the VM reaches the running state
vm_starts_running ==
    /\ boot_pc \in {"wait_running", "wait_sleep"}
    /\ ~vm_running
    /\ vm_running' = TRUE
    /\ UNCHANGED <<boot_pc, clock, boot_expiration, vm_domid, bootInputs,
                   bootVersion, boot_calls, boot_polled, boot_busy,
                   boot_exc>>
    /\ FrameBoot

\* the guest reboots during its setup: the VM record gets another domid
domid_changes(d) ==
    /\ boot_pc = "version_loop"
    /\ d # vm_domid
    /\ vm_domid' = d
    /\ UNCHANGED <<boot_pc, clock, boot_expiration, vm_running, bootInputs,
                   bootVersion, boot_calls, boot_polled, boot_busy,
                   boot_exc>>
    /\ FrameBoot

Outcomes == {"ok", "raises"}

\* the steps of _get_agent_version
VersionStep ==
    \/ \E outcome \in Outcomes : boot_get_agent_version(outcome)
    \/ \E resp \in VersionResponses : boot_version_call(resp)
    \/ boot_version_call_raises
    \/ boot_version_expired

\* the steps of _boot_new_instance around it
BootStep ==
    \/ \E outcome \in Outcomes : boot_start(outcome)
    \/ boot_wait_poll
    \/ boot_wait_sleep
    \/ boot_wait_expired
    \/ \E outcome \in Outcomes : boot_agent_update(outcome)
    \/ \E outcome \in Outcomes : boot_inject_files(outcome)
    \/ \E outcome \in Outcomes : boot_set_admin_password(outcome)
    \/ \E outcome \in Outcomes : boot_reset_network(outcome)
    \/ \E weight \in BOOLEAN : \E outcome \in Outcomes :
            boot_set_vcpu_weight(weight, outcome)

NextVersion ==
    \/ VersionStep
    \/ boot_tick
    \/ \E d \in 1..MaxDomid : domid_changes(d)

NextBoot ==
    \/ BootStep
    \/ vm_starts_running
    \/ NextVersion

StartBoot ==
    /\ InitBoot
    /\ IdleSaga
    /\ IdleSpawn
    /\ IdleMig
    /\ IdleDH
    /\ IdlePlug
    /\ IdlePoll
    /\ IdleAttach
    /\ IdleSnap
    /\ IdlePwd
    /\ IdleAgent
    /\ IdleRescue
    /\ IdleReboot
    /\ IdleResize
    /\ IdleModExp
    /\ IdleCmp
    /\ IdleYield
    /\ IdleLock
    /\ IdleCvm
    /\ IdleSec
    /\ IdleDes

SpecBoot == StartBoot /\ [][NextBoot]_vars

\* _get_agent_version called on its own, at any time of the clock
InitVersion ==
    /\ boot_pc = "get_agent_version"
    /\ clock \in 0..MaxTimeout
    /\ running_timeout = 0
    /\ agent_version_timeout \in 0..MaxTimeout
    /\ boot_expiration = 0
    /\ vm_running = TRUE
    /\ vm_domid \in 1..MaxDomid
    /\ ver_domid = 0
    /\ ver_last = <<>>
    /\ ver_earlier_good = FALSE
    /\ version_query = "pending"
    /\ agent_version = <<>>
    /\ agent_build = <<>>
    /\ admin_pass = FALSE
    /\ injected_files = "none"
    /\ vcpu_weight = FALSE
    /\ boot_calls = <<>>
    /\ boot_polled = {}
    /\ boot_busy = {}
    /\ boot_exc = None

StartVersion ==
    /\ InitVersion
    /\ IdleSaga
    /\ IdleSpawn
    /\ IdleMig
    /\ IdleDH
    /\ IdlePlug
    /\ IdlePoll
    /\ IdleAttach
    /\ IdleSnap
    /\ IdlePwd
    /\ IdleAgent
    /\ IdleRescue
    /\ IdleReboot
    /\ IdleResize
    /\ IdleModExp
    /\ IdleCmp
    /\ IdleYield
    /\ IdleLock
    /\ IdleCvm
    /\ IdleSec
    /\ IdleDes
\* time passes, and a call that is due is made and returns or raises
SpecVersionFair ==
    /\ StartVersion
    /\ [][NextVersion]_vars
    /\ WF_vars(boot_tick)
    /\ WF_vars(VersionStep)

VersionQueryPcs == {"get_agent_version", "version_loop"}

AfterVersionQuery ==
    {"agent_update", "inject_files", "set_admin_password", "reset_network",
     "vcpu_weight", "returned", "raised"}

\* what holds of every state of _get_agent_version
C13_Safety ==
    /\ ver_last # <<>> => ver_last[1].dom_id = ver_last[1].record_domid
    /\ ~ver_earlier_good
    /\ version_query = "found" =>
          /\ agent_version # <<>>
          /\ agent_version = ver_last[1].version
          /\ ver_last[1].returncode = "0"
          /\ boot_pc \notin VersionQueryPcs
    /\ version_query = "none" =>
          /\ agent_version = <<>>
          /\ clock >= boot_expiration
          /\ ~LastCallGood
          /\ boot_pc \notin VersionQueryPcs
    /\ boot_pc \in AfterVersionQuery \ {"raised"} =>
          version_query # "pending"

\* C13: _get_agent_version always ends; when it returns, it returns the
\* version of the first 'version' call answered with returncode '0' and a
\* version that is not empty, or None once the expiration is reached with no
\* such answer; the dom_id of every call is the domid the VM record has when
\* the call is made. (A call that raises ends it by that exception.)
C13_AgentVersionTerminates ==
    /\ []C13_Safety
    /\ (boot_pc \in VersionQueryPcs) ~> (boot_pc \notin VersionQueryPcs)

\* C13 witness: the agent answered '0' with an empty version, the domid of the
\* VM changed, and the expiration ended the loop with None
C13_Witness ==
    /\ version_query = "none"
    /\ ver_last # <<>>
    /\ ver_last[1].returncode = "0"
    /\ vm_domid # ver_domid
    /\ agent_version_timeout = MaxTimeout

BootCallsOf(op) == {i \in 1..Len(boot_calls) : boot_calls[i].op = op}

C19_AsStated == boot_busy = {}

\* the boot-wait loop sleeps between two polls
C19_BootWaitSleeps == "boot_wait" \notin boot_busy

\* C19 witness: the agent-version loop made two calls in a row
C19_Witness == boot_busy = {"agent_version"}

(***************************************************************************)
(* poll_rescued_instances (vmops.py:1267-1304), rescue (vmops.py:1175-1200)*)
(***************************************************************************)
\* the instances of the host, in the order list_instances names them
InstanceList == <<"instance-1", "instance-2">>

InstanceNames == {InstanceList[i] : i \in 1..Len(InstanceList)}

\* an instance on the host: its rescue VM ("none", "in_flight" while rescue
\* is still running, "rescued") and the time that VM record was created
HostVm(rescue_vm, since) == [rescue_vm |-> rescue_vm, since |-> since]

\* utils.is_older_than(before, seconds): utcnow() is more than `seconds` after
\* `before`; at exactly `seconds` the answer is either one (at_boundary)
is_older_than(before, seconds, now, at_boundary) ==
    \/ now - before > seconds
    \/ now - before = seconds /\ at_boundary

\* a plausible slip: no rate limit, every call scans
rescue_scan_due_always(last_ran, seconds, now, at_boundary) == TRUE

\* vmops.py:1280
rescue_scan_due(last_ran, seconds, now, at_boundary) ==
    is_older_than(last_ran[1], seconds, now, at_boundary)

RECURSIVE RescueVmsFrom(_, _)
\* vmops.py:1287-1292: the instances of the host whose name ends in -rescue
RescueVmsFrom(vms, i) ==
    IF i > Len(InstanceList) THEN <<>>
    ELSE (IF vms[InstanceList[i]].rescue_vm # "none"
          THEN <<InstanceList[i]>> ELSE <<>>)
             \o RescueVmsFrom(vms, i + 1)

\* the places where the teardown of one rescue VM can raise
TeardownFailures == {"destroy_rescue_instance", "release_bootlock", "start"}

TeardownOutcomes == {"ok"} \cup TeardownFailures

\* vmops.py:1300-1304: the rescue VM is destroyed, the boot lock released and
\* the VM of the instance started; a failure in the first of the three
\* leaves the rescue VM in place
teardown(vm, outcome) ==
    IF outcome = "destroy_rescue_instance" THEN vm ELSE HostVm("none", 0)

\* the loop of vmops.py:1294-1304 over the batch: the items before fail_at
\* are torn down, item fail_at raises (0: none does), the items after it are
\* not reached
vms_after_scan(vms, batch, fail_at, failure) ==
    [n \in InstanceNames |->
        LET at == {i \in 1..Len(batch) : batch[i] = n}
        IN IF at = {} THEN vms[n]
           ELSE LET i == CHOOSE j \in at : TRUE
                IN IF fail_at = 0 \/ i < fail_at THEN teardown(vms[n], "ok")
                   ELSE IF i = fail_at THEN teardown(vms[n], failure)
                   ELSE vms[n]]

\* what the scan did, item by item: the rescue VM as it was found, its age,
\* and the outcome
scan_entries(vms, batch, fail_at, failure, now) ==
    [i \in 1..(IF fail_at = 0 THEN Len(batch) ELSE fail_at) |->
        [name |-> batch[i],
         found |-> vms[batch[i]].rescue_vm,
         age |-> now - vms[batch[i]].since,
         outcome |-> IF i = fail_at THEN failure ELSE "ok"]]

InitRescue ==
    /\ resc_now = 0
    /\ rescue_timeout \in 1..MaxTimeout
    /\ poll_rescue_last_ran = <<>>
    /\ hv_vms = [n \in InstanceNames |-> HostVm("none", 0)]
    /\ resc_kinds = <<>>
    /\ resc_batch = <<>>
    /\ resc_log = <<>>
    /\ resc_exc = None

\* a call of poll_rescued_instances, from its first line to its return or
\* to the exception of a teardown
poll_rescued_instances(at_boundary, fail_at, failure) ==
    /\ Len(resc_kinds) < MaxPolls
    /\ (fail_at = 0) <=> (failure = "ok")
    /\ IF poll_rescue_last_ran = <<>>
       THEN /\ fail_at = 0
            /\ poll_rescue_last_ran' = <<resc_now>>
            /\ resc_kinds' = Append(resc_kinds, "first")
            /\ resc_batch' = <<>>
            /\ resc_log' = <<>>
            /\ resc_exc' = None
            /\ UNCHANGED hv_vms
       ELSE IF ~rescue_scan_due(poll_rescue_last_ran, rescue_timeout,
                                resc_now, at_boundary)
       THEN /\ fail_at = 0
            /\ resc_kinds' = Append(resc_kinds, "bail")
            /\ resc_batch' = <<>>
            /\ resc_log' = <<>>
            /\ resc_exc' = None
            /\ UNCHANGED <<poll_rescue_last_ran, hv_vms>>
       ELSE LET batch == RescueVmsFrom(hv_vms, 1)
            IN /\ fail_at <= Len(batch)
               /\ poll_rescue_last_ran' = <<resc_now>>
               /\ resc_kinds' = Append(resc_kinds, "scan")
               /\ resc_batch' = batch
               /\ hv_vms' = vms_after_scan(hv_vms, batch, fail_at, failure)
               /\ resc_log' = scan_entries(hv_vms, batch, fail_at, failure,
                                           resc_now)
               /\ resc_exc' = IF fail_at = 0 THEN None ELSE failure
    /\ UNCHANGED <<resc_now, rescue_timeout>>
    /\ FrameRescue

\* time passes
rescue_tick ==
    /\ Len(resc_kinds) < MaxPolls
    /\ resc_now < MaxNow
    /\ resc_now' = resc_now + 1
    /\ UNCHANGED <<rescue_timeout, poll_rescue_last_ran, hv_vms, resc_kinds,
                   resc_batch, resc_log, resc_exc>>
    /\ FrameRescue

\* rescue (vmops.py:1183-1193) up to the creation of the rescue VM record by
\* spawn: the VM of the instance is shut down and boot-locked
rescue_begins(n) ==
    /\ Len(resc_kinds) < MaxPolls
    /\ hv_vms[n].rescue_vm = "none"
    /\ hv_vms' = [hv_vms EXCEPT ![n] = HostVm("in_flight", resc_now)]
    /\ UNCHANGED <<resc_now, rescue_timeout, poll_rescue_last_ran,
                   resc_kinds, resc_batch, resc_log, resc_exc>>
    /\ FrameRescue

\* rescue (vmops.py:1195-1200): the disk of the instance is plugged into the
\* rescue VM, rescue returns
rescue_completes(n) ==
    /\ Len(resc_kinds) < MaxPolls
    /\ hv_vms[n].rescue_vm = "in_flight"
    /\ hv_vms' = [hv_vms EXCEPT ![n].rescue_vm = "rescued"]
    /\ UNCHANGED <<resc_now, rescue_timeout, poll_rescue_last_ran,
                   resc_kinds, resc_batch, resc_log, resc_exc>>
    /\ FrameRescue

NextRescue ==
    \/ \E at_boundary \in BOOLEAN : \E fail_at \in 0..Len(InstanceList) :
          \E failure \in TeardownOutcomes :
              poll_rescued_instances(at_boundary, fail_at, failure)
    \/ rescue_tick
    \/ \E n \in InstanceNames : rescue_begins(n)
    \/ \E n \in InstanceNames : rescue_completes(n)

StartRescue ==
    /\ InitRescue
    /\ IdleSaga
    /\ IdleSpawn
    /\ IdleMig
    /\ IdleDH
    /\ IdlePlug
    /\ IdlePoll
    /\ IdleAttach
    /\ IdleSnap
    /\ IdlePwd
    /\ IdleAgent
    /\ IdleBoot
    /\ IdleReboot
    /\ IdleResize
    /\ IdleModExp
    /\ IdleCmp
    /\ IdleYield
    /\ IdleLock
    /\ IdleCvm
    /\ IdleSec
    /\ IdleDes

SpecRescue == StartRescue /\ [][NextRescue]_vars

\* the step is a call of poll_rescued_instances
RescuePollCalled == Len(resc_kinds') = Len(resc_kinds) + 1

\* C15: the first call of poll_rescued_instances only records the scan time
\* and tears down nothing; a later call either changes nothing at all
\* (poll_rescue_last_ran and every VM as before), or at least `timeout` has
\* elapsed since the recorded time and the recorded time becomes the current
\* time; rescue VMs are torn down only in the second case, and a call made
\* before the timeout has elapsed is always of the first kind.
C15_RateLimited ==
    [][RescuePollCalled =>
          IF poll_rescue_last_ran = <<>>
          THEN /\ poll_rescue_last_ran' = <<resc_now>>
               /\ hv_vms' = hv_vms
          ELSE LET elapsed == resc_now - poll_rescue_last_ran[1]
               IN /\ \/ /\ poll_rescue_last_ran' = poll_rescue_last_ran
                        /\ hv_vms' = hv_vms
                     \/ /\ elapsed >= rescue_timeout
                        /\ poll_rescue_last_ran' = <<resc_now>>
                  /\ elapsed < rescue_timeout =>
                        /\ poll_rescue_last_ran' = poll_rescue_last_ran
                        /\ hv_vms' = hv_vms]_vars

\* a first call, then a call that bailed out, then a scan that tore down a
\* rescue VM and advanced the recorded time
C15_Witness ==
    /\ resc_kinds = <<"first", "bail", "scan">>
    /\ Len(resc_log) >= 1
    /\ resc_log[1].outcome = "ok"
    /\ poll_rescue_last_ran = <<resc_now>>
    /\ resc_now >= rescue_timeout

\* C16 (as stated): a failure while processing one item of a reconciliation
\* scan does not abort the batch: when the scan of poll_unconfirmed_resizes
\* or of poll_rescued_instances is over, every item of its batch has been
\* processed.
C16_AsStated ==
    /\ poll_pc = "idle" => Len(scan_log) = Len(poll_batch)
    /\ Len(resc_log) = Len(resc_batch)

\* the teardown of the first of two rescue VMs raised and the call ended
\* with the second one not processed
C16_Witness ==
    /\ resc_exc \in TeardownFailures
    /\ Len(resc_batch) = 2
    /\ Len(resc_log) = 1
    /\ hv_vms[resc_batch[2]].rescue_vm # "none"

\* C17 (as stated): poll_rescued_instances tears down only rescue VMs of
\* instances that have been in rescue mode for at least the timeout; a rescue
\* VM whose rescue operation is still in flight is not torn down.
C17_AsStated ==
    \A i \in 1..Len(resc_log) :
        resc_log[i].outcome = "ok" =>
            /\ resc_log[i].found = "rescued"
            /\ resc_log[i].age >= rescue_timeout

\* a scan tore down the rescue VM of a rescue still in flight, younger than
\* the timeout
C17_Witness ==
    \E i \in 1..Len(resc_log) :
        /\ resc_log[i].outcome = "ok"
        /\ resc_log[i].found = "in_flight"
        /\ resc_log[i].age < rescue_timeout

(***************************************************************************)
(* poll_rebooting_instances (vmops.py:1232-1265)                           *)
(***************************************************************************)
\* a plausible slip: no task is ever found stale
task_is_stale_never(created, seconds, now, at_boundary) == FALSE

\* vmops.py:1240
task_is_stale(created, seconds, now, at_boundary) ==
    is_older_than(created, seconds, now, at_boundary)

\* db.instance_get_all_hung_in_rebooting(ctxt, timeout): some instances, each
\* once
HungLists ==
    {l \in SeqsUpTo(InstanceNames, Len(InstanceList)) :
        \A i, j \in 1..Len(l) : i # j => l[i] # l[j]}

CancelCall(task_ref) == [op |-> "task.cancel", task_ref |-> task_ref]

RebootCall(instance) ==
    [op |-> "reboot", instance |-> instance, reboot_type |-> "HARD"]

InitReboot ==
    /\ rb_pc = "idle"
    /\ rb_now \in 0..MaxNow
    /\ rb_timeout \in 1..MaxTimeout
    /\ rb_tasks \in SeqsUpTo(0..rb_now, MaxTasks)
    /\ rb_idx = 0
    /\ rb_hung = <<>>
    /\ rb_log = <<>>
    /\ rb_exc = FALSE

\* vmops.py:1251, 1234: the tasks named VM.clean_reboot are listed
reboot_poll_start ==
    /\ rb_pc = "idle"
    /\ rb_pc' = IF rb_tasks = <<>> THEN "list" ELSE "cancel"
    /\ rb_idx' = 1
    /\ UNCHANGED <<rb_now, rb_timeout, rb_tasks, rb_hung, rb_log, rb_exc>>
    /\ FrameReboot

\* vmops.py:1235-1241: one task of the list; task.get_record or task.cancel
\* may raise
cancel_stale_step(at_boundary, outcome) ==
    /\ rb_pc = "cancel"
    /\ IF outcome = "raises"
       THEN /\ rb_pc' = "raised"
            /\ rb_exc' = TRUE
            /\ UNCHANGED <<rb_idx, rb_log>>
       ELSE /\ rb_log' = IF task_is_stale(rb_tasks[rb_idx], rb_timeout,
                                          rb_now, at_boundary)
                         THEN Append(rb_log, CancelCall(rb_idx))
                         ELSE rb_log
            /\ rb_idx' = rb_idx + 1
            /\ rb_pc' = IF rb_idx = Len(rb_tasks) THEN "list" ELSE "cancel"
            /\ UNCHANGED rb_exc
    /\ UNCHANGED <<rb_now, rb_timeout, rb_tasks, rb_hung>>
    /\ FrameReboot

\* vmops.py:1253-1254
list_hung_in_rebooting(hung) ==
    /\ rb_pc = "list"
    /\ rb_hung' = hung
    /\ rb_idx' = 1
    /\ rb_pc' = IF hung = <<>> THEN "done" ELSE "reboot"
    /\ UNCHANGED <<rb_now, rb_timeout, rb_tasks, rb_log, rb_exc>>
    /\ FrameReboot

\* vmops.py:1263-1265: one instance of the list; compute_api.reboot may raise
hard_reboot_step(outcome) ==
    /\ rb_pc = "reboot"
    /\ IF outcome = "raises"
       THEN /\ rb_pc' = "raised"
            /\ rb_exc' = TRUE
            /\ UNCHANGED <<rb_idx, rb_log>>
       ELSE /\ rb_log' = Append(rb_log, RebootCall(rb_hung[rb_idx]))
            /\ rb_idx' = rb_idx + 1
            /\ rb_pc' = IF rb_idx = Len(rb_hung) THEN "done" ELSE "reboot"
            /\ UNCHANGED rb_exc
    /\ UNCHANGED <<rb_now, rb_timeout, rb_tasks, rb_hung>>
    /\ FrameReboot

NextReboot ==
    \/ reboot_poll_start
    \/ \E at_boundary \in BOOLEAN : \E outcome \in Outcomes :
          cancel_stale_step(at_boundary, outcome)
    \/ \E hung \in HungLists : list_hung_in_rebooting(hung)
    \/ \E outcome \in Outcomes : hard_reboot_step(outcome)

StartReboot ==
    /\ InitReboot
    /\ IdleSaga
    /\ IdleSpawn
    /\ IdleMig
    /\ IdleDH
    /\ IdlePlug
    /\ IdlePoll
    /\ IdleAttach
    /\ IdleSnap
    /\ IdlePwd
    /\ IdleAgent
    /\ IdleBoot
    /\ IdleRescue
    /\ IdleResize
    /\ IdleModExp
    /\ IdleCmp
    /\ IdleYield
    /\ IdleLock
    /\ IdleCvm
    /\ IdleSec
    /\ IdleDes

SpecReboot == StartReboot /\ [][NextReboot]_vars

\* positions of the log where the call is made
LogPositions(call) == {k \in 1..Len(rb_log) : rb_log[k] = call}

VirtualSizes ==
    {g * GiB + d : g \in 0..MaxGb, d \in {-1, 0, 1}} \ {-1}

\* vmops.py:840
new_disk_size(gb) == gb * GiB

\* a plausible slip: every difference in size resized
needs_resize_when_different(virtual_size, size) == virtual_size # size

\* vmops.py:853
needs_resize(virtual_size, size) == virtual_size < size

\* vmops.py:857-860
resize_func_name(product_version) ==
    IF product_version > 5 THEN "VDI.resize" ELSE "VDI.resize_online"

ResizeCall(call_no, before, size, outcome) ==
    [call_no |-> call_no, func |-> resize_func_name(rs_product_version),
     before |-> before, size |-> size, outcome |-> outcome]

InitResize ==
    /\ rs_root_gb \in 0..MaxGb
    /\ rs_virtual_size \in VirtualSizes
    /\ rs_product_version \in {5, 6}
    /\ rs_results = <<>>
    /\ rs_log = <<>>

\* a call of _resize_instance on the disk: it returns at once for root_gb 0;
\* reading the size may raise; the resize is called when the disk is smaller
\* than the target, and when it returns the disk has the size asked for
resize_instance_call(outcome) ==
    /\ Len(rs_results) < MaxResizes
    /\ LET size == new_disk_size(rs_root_gb)
           call_no == Len(rs_results) + 1
       IN IF size = 0
          THEN /\ outcome = "ok"
               /\ rs_results' = Append(rs_results, "returned")
               /\ UNCHANGED <<rs_virtual_size, rs_log>>
          ELSE IF outcome = "get_size_raises"
          THEN /\ rs_results' = Append(rs_results, "raised")
               /\ UNCHANGED <<rs_virtual_size, rs_log>>
          ELSE IF ~needs_resize(rs_virtual_size, size)
          THEN /\ outcome = "ok"
               /\ rs_results' = Append(rs_results, "returned")
               /\ UNCHANGED <<rs_virtual_size, rs_log>>
          ELSE /\ rs_log' = Append(rs_log, ResizeCall(call_no,
                                       rs_virtual_size, size, outcome))
               /\ rs_virtual_size' = IF outcome = "ok" THEN size
                                     ELSE rs_virtual_size
               /\ rs_results' = Append(rs_results,
                                       IF outcome = "ok" THEN "returned"
                                       ELSE "raised")
    /\ UNCHANGED <<rs_root_gb, rs_product_version>>
    /\ FrameResize

NextResize ==
    \E outcome \in {"ok", "get_size_raises", "resize_raises"} :
        resize_instance_call(outcome)

StartResize ==
    /\ InitResize
    /\ IdleSaga
    /\ IdleSpawn
    /\ IdleMig
    /\ IdleDH
    /\ IdlePlug
    /\ IdlePoll
    /\ IdleAttach
    /\ IdleSnap
    /\ IdlePwd
    /\ IdleAgent
    /\ IdleBoot
    /\ IdleRescue
    /\ IdleReboot
    /\ IdleModExp
    /\ IdleCmp
    /\ IdleYield
    /\ IdleLock
    /\ IdleCvm
    /\ IdleSec
    /\ IdleDes

SpecResize == StartResize /\ [][NextResize]_vars

\* C27: _resize_instance never shrinks a disk: every resize it issues asks
\* for root_gb * 2^30 bytes on a disk strictly smaller than that, none is
\* issued when root_gb is 0 or the disk is already that large, and of two
\* calls in a row at most one resizes: after a call that returned, the next
\* one issues no resize.
C27_ResizeOnlyGrows ==
    /\ \A k \in 1..Len(rs_log) :
          /\ rs_log[k].size = rs_root_gb * 1024
          /\ rs_log[k].before < rs_log[k].size
          /\ rs_log[k].call_no >= 2 =>
                rs_results[rs_log[k].call_no - 1] = "raised"
    /\ rs_root_gb = 0 => rs_log = <<>>
    /\ Cardinality({k \in 1..Len(rs_log) : rs_log[k].outcome = "ok"}) <= 1
    /\ Len(rs_log) <= Len(rs_results)

\* two calls in a row on a disk one MiB short of 1 GiB: the first resized it,
\* the second did nothing
C27_Witness ==
    /\ rs_results = <<"returned", "returned">>
    /\ rs_root_gb = 1
    /\ Len(rs_log) = 1
    /\ rs_log[1].before = 1023
    /\ rs_log[1].size = 1024
    /\ rs_virtual_size = 1024

\* ---------------------------------------------------------------------------
\* Every VDI of the list is attached once, the root at device 0
\* (_create_vm, vmops.py:376-384; _attach_disks, vmops.py:459-492)
\* ---------------------------------------------------------------------------

\* the number of block devices that attach the VDI uuid
TimesAttached(uuid) ==
    Cardinality({i \in 1..Len(vbds) :
                     vbds[i].what = "vdi" /\ vbds[i].vdi_uuid = uuid})

\* C34: for a non-ISO image, after _attach_disks returned, the disk at device
\* 0 is the first VDI of the list, no VDI is attached more than once, and every
\* VDI that was not discarded as a swap disk is attached exactly once.
C34_AsStated ==
    (att_pc = "done" /\ disk_image_type # "DISK_ISO") =>
        /\ vbds[1] = Vbd(0, "vdi", vdis[1].vdi_uuid)
        /\ \A i \in 1..Len(vdis) :
               /\ TimesAttached(vdis[i].vdi_uuid) <= 1
               /\ vdis[i].vdi_uuid \notin destroyed_vdis =>
                      TimesAttached(vdis[i].vdi_uuid) = 1

\* C34 witness: a root VDI followed by one extra non-swap VDI; the extra VDI
\* is attached at device 0 and again at device 2, the root VDI nowhere
C34_Witness ==
    /\ att_pc = "done"
    /\ disk_image_type # "DISK_ISO"
    /\ vdis = <<Vdi(1, "root"), Vdi(2, "other")>>
    /\ first_vdi_ref = 2
    /\ vbds[1] = Vbd(0, "vdi", 2)
    /\ TimesAttached(2) = 2
    /\ TimesAttached(1) = 0

\* ---------------------------------------------------------------------------
\* The '-orig' name label and the outcome of migrate_disk_and_power_off
\* (vmops.py:711-803)
\* ---------------------------------------------------------------------------

\* C38: migrate_disk_and_power_off has relabelled the source VM with the
\* '-orig' suffix exactly when it returns the descriptor; whenever it raises,
\* the source VM keeps the name label of the instance.
C38_AsStated ==
    /\ mig_pc = "returned" =>
           vm_name_label = get_orig_vm_name_label(instance_name)
    /\ mig_pc = "raised" => vm_name_label = instance_name

\* C38 witness: every step up to set_vm_name_label returned, the _destroy of
\* the snapshot template in the finally clause raised; the call raises and
\* the source VM is labelled '-orig'
C38_Witness ==
    /\ mig_pc = "raised"
    /\ mig_exc = "destroy_template"
    /\ mig_calls # <<>>
    /\ mig_calls[Len(mig_calls)] = DestroyCalled("raises")
    /\ vm_name_label = get_orig_vm_name_label(instance_name)

(***************************************************************************)
(* SimpleDH.mod_exp, get_public and compute_shared, one call each          *)
(* (vmops.py:1594-1611)                                                    *)
(***************************************************************************)
RECURSIVE Pow(_, _)
\* num ** exp, by repeated multiplication
Pow(num, exp) == IF exp = 0 THEN 1 ELSE num * Pow(num, exp - 1)

\* the call and its arguments: mod_exp with any num, exp and mod > 1;
\* get_public and compute_shared on an object whose _private is me_exp and
\* whose _prime is me_mod
InitModExp ==
    /\ me_call \in {"mod_exp", "get_public", "compute_shared"}
    /\ me_num \in 0..MaxNum
    /\ me_call = "get_public" => me_num = SimpleDH_base
    /\ me_exp \in 0..MaxExp
    /\ me_mod \in 2..MaxMod
    /\ me_result = <<>>

\* vmops.py:1603-1611
mod_exp_call ==
    /\ me_call = "mod_exp"
    /\ me_result = <<>>
    /\ me_result' = <<mod_exp(me_num, me_exp, me_mod)>>
    /\ UNCHANGED <<me_call, me_num, me_exp, me_mod>>
    /\ FrameModExp

\* vmops.py:1594-1596
get_public_call ==
    /\ me_call = "get_public"
    /\ me_result = <<>>
    /\ me_result' = <<mod_exp(SimpleDH_base, me_exp, me_mod)>>
    /\ UNCHANGED <<me_call, me_num, me_exp, me_mod>>
    /\ FrameModExp

\* vmops.py:1598-1600
compute_shared_call ==
    /\ me_call = "compute_shared"
    /\ me_result = <<>>
    /\ me_result' = <<compute_shared_value(me_num, me_exp, me_mod)>>
    /\ UNCHANGED <<me_call, me_num, me_exp, me_mod>>
    /\ FrameModExp

NextModExp ==
    \/ mod_exp_call
    \/ get_public_call
    \/ compute_shared_call

StartModExp ==
    /\ InitModExp
    /\ IdleSaga
    /\ IdleSpawn
    /\ IdleMig
    /\ IdleDH
    /\ IdlePlug
    /\ IdlePoll
    /\ IdleAttach
    /\ IdleSnap
    /\ IdlePwd
    /\ IdleAgent
    /\ IdleBoot
    /\ IdleRescue
    /\ IdleReboot
    /\ IdleResize
    /\ IdleCmp
    /\ IdleYield
    /\ IdleLock
    /\ IdleCvm
    /\ IdleSec
    /\ IdleDes
SpecModExp == StartModExp /\ [][NextModExp]_vars

\* C31: mod_exp(num, exp, mod) is (num ** exp) mod mod, a value in
\* 0..mod-1, for all num >= 0, exp >= 0 and mod > 1; get_public returns
\* base ^ private mod prime and compute_shared(other) returns
\* other ^ private mod prime.
C31_ModExpIsPowerMod ==
    me_result # <<>> =>
        /\ me_result[1] \in 0..(me_mod - 1)
        /\ me_call = "mod_exp" =>
               me_result[1] = Pow(me_num, me_exp) % me_mod
        /\ me_call = "get_public" =>
               me_result[1] = Pow(SimpleDH_base, me_exp) % me_mod
        /\ me_call = "compute_shared" =>
               me_result[1] = Pow(me_num, me_exp) % me_mod

\* C31 witness: mod_exp(3, 5, 7) returned 243 mod 7 = 5, an exponent with
\* more than one bit set and a power larger than the modulus
C31_Witness ==
    /\ me_call = "mod_exp"
    /\ me_num = 3
    /\ me_exp = 5
    /\ me_mod = 7
    /\ me_result = <<5>>

(***************************************************************************)
(* cmp_version on version strings (vmops.py:83-95) and the agent update    *)
(* decision of _boot_new_instance (vmops.py:530-535)                       *)
(***************************************************************************)
\* the segments between the dots: '0', '1', '9' and '10'
SegmentStrings == {<<0>>, <<1>>, <<9>>, <<1, 0>>}

\* version strings of up to MaxSegments segments, and the two of the
\* docstring, 0.0.1.10 and 0.0.1.9
VersionStrings ==
    UNION {[1..n -> SegmentStrings] : n \in 1..MaxSegments}
        \cup {<<<<0>>, <<0>>, <<1>>, <<1, 0>>>>, <<<<0>>, <<0>>, <<1>>, <<9>>>>}

\* a plausible slip: a segment valued by its first character, as a
\* comparison of the strings would
py_int_first_digit(digits) == digits[1]

RECURSIVE py_int(_)
\* int(va): the digits read from the left
py_int(digits) ==
    IF digits = <<>> THEN 0
    ELSE 10 * py_int(SubSeq(digits, 1, Len(digits) - 1)) + digits[Len(digits)]

\* a.split('.') with int() applied to each part, as the loop does
version_numbers(v) == [i \in 1..Len(v) |-> py_int(v[i])]

\* cmp_version(a, b) on the two strings
cmp_version_strings(a, b) ==
    cmp_version(version_numbers(a), version_numbers(b))

InitCmp ==
    /\ cv_a \in VersionStrings
    /\ cv_b \in VersionStrings
    /\ cv_ret = <<>>
    /\ cv_update = <<>>

\* cmp_version called on (a, b), on (b, a) and on (a, a)
cmp_version_call ==
    /\ cv_ret = <<>>
    /\ cv_update = <<>>
    /\ cv_ret' = <<[ab |-> cmp_version_strings(cv_a, cv_b),
                    ba |-> cmp_version_strings(cv_b, cv_a),
                    aa |-> cmp_version_strings(cv_a, cv_a)]>>
    /\ UNCHANGED <<cv_a, cv_b, cv_update>>
    /\ FrameCmp

\* vmops.py:530-535: the agent reported version a or none, the database has
\* an agent build of version b or none
agent_update_decision(has_version, has_build) ==
    /\ cv_ret = <<>>
    /\ cv_update = <<>>
    /\ cv_update' =
           <<[version |-> has_version, build |-> has_build,
              update |-> agent_update_due(
                  IF has_version THEN version_numbers(cv_a) ELSE <<>>,
                  IF has_build THEN <<[version |-> version_numbers(cv_b)]>>
                  ELSE <<>>)]>>
    /\ UNCHANGED <<cv_a, cv_b, cv_ret>>
    /\ FrameCmp

NextCmp ==
    \/ cmp_version_call
    \/ \E has_version \in BOOLEAN, has_build \in BOOLEAN :
           agent_update_decision(has_version, has_build)

StartCmp ==
    /\ InitCmp
    /\ IdleSaga
    /\ IdleSpawn
    /\ IdleMig
    /\ IdleDH
    /\ IdlePlug
    /\ IdlePoll
    /\ IdleAttach
    /\ IdleSnap
    /\ IdlePwd
    /\ IdleAgent
    /\ IdleBoot
    /\ IdleRescue
    /\ IdleReboot
    /\ IdleResize
    /\ IdleModExp
    /\ IdleYield
    /\ IdleLock
    /\ IdleCvm
    /\ IdleSec
    /\ IdleDes
SpecCmp == StartCmp /\ [][NextCmp]_vars

Sign(n) == IF n > 0 THEN 1 ELSE IF n < 0 THEN -1 ELSE 0

\* the number a segment denotes, digit by digit with its power of ten
DecimalValue(digits) ==
    LET RECURSIVE Sum(_)
        Sum(i) == IF i > Len(digits) THEN 0
                  ELSE digits[i] * Pow(10, Len(digits) - i) + Sum(i + 1)
    IN Sum(1)

\* the order of two version strings: decided by the first pair of segments
\* that denote different numbers, else by the number of segments
VersionOrder(a, b) ==
    LET n == IF Len(a) < Len(b) THEN Len(a) ELSE Len(b)
        diff == {i \in 1..n : DecimalValue(a[i]) # DecimalValue(b[i])}
    IN IF diff = {} THEN Sign(Len(a) - Len(b))
       ELSE LET i == CHOOSE j \in diff : \A k \in diff : j <= k
            IN IF DecimalValue(a[i]) > DecimalValue(b[i]) THEN 1 ELSE -1

\* C40: cmp_version(a, a) is 0; cmp_version(a, b) and cmp_version(b, a) have
\* opposite signs; the segments are compared as numbers (0.0.1.10 is greater
\* than 0.0.1.9); the agent update is requested only when the agent reported
\* a version and that version is strictly lower than the latest build's.
C40_CmpVersionOrders ==
    /\ cv_ret # <<>> =>
           /\ cv_ret[1].aa = 0
           /\ Sign(cv_ret[1].ab) = -Sign(cv_ret[1].ba)
           /\ Sign(cv_ret[1].ab) = VersionOrder(cv_a, cv_b)
    /\ cv_update # <<>> =>
           (cv_update[1].update =>
                /\ cv_update[1].version
                /\ cv_update[1].build
                /\ VersionOrder(cv_a, cv_b) = -1)

\* C40 witness: cmp_version('0.0.1.10', '0.0.1.9') returned a positive number
\* and the reverse call a negative one
C40_Witness ==
    /\ cv_a = <<<<0>>, <<0>>, <<1>>, <<1, 0>>>>
    /\ cv_b = <<<<0>>, <<0>>, <<1>>, <<9>>>>
    /\ cv_ret # <<>>
    /\ cv_ret[1].ab > 0
    /\ cv_ret[1].ba < 0

\* C40 witness of the update: the agent reported 1.9, the build is 1.10 and
\* the update is requested
C40_UpdateWitness ==
    /\ cv_a = <<<<1>>, <<9>>>>
    /\ cv_b = <<<<1>>, <<1, 0>>>>
    /\ cv_update # <<>>
    /\ cv_update[1].update

(***************************************************************************)
(* The yield of poll_unconfirmed_resizes (vmops.py:1332-1362)              *)
(***************************************************************************)
\* what an iteration meets: the instance is gone, in ERROR, not in
\* RESIZE_VERIFY (the migration is set to error, and that update returns or
\* raises), or confirm_resize is called and returns or raises
MigrationFates ==
    {"not_found", "in_error", "wrong_task_state", "set_error_raises",
     "confirm_ok", "confirm_raises"}

Yield == [event |-> "sleep(0)", id |-> 0]
Processed(i, fate) == [event |-> fate, id |-> i]
OtherThread == [event |-> "other green thread", id |-> 0]

\* a plausible slip: the sleep at the bottom of the loop body, which the
\* continue statements and an exception pass by
iteration_statements_sleep_at_bottom(i, fate) ==
    IF fate \in {"confirm_ok", "confirm_raises"}
    THEN <<Processed(i, fate), Yield>>
    ELSE <<Processed(i, fate)>>

\* the statements of one iteration: greenthread.sleep(0) at the top
\* (vmops.py:1335), then the rest of the body (vmops.py:1336-1362)
iteration_statements(i, fate) == <<Yield, Processed(i, fate)>>

InitYield ==
    /\ ry_batch \in SeqsUpTo(MigrationFates, MaxMigrations)
    /\ ry_idx = 1
    /\ ry_pos = 1
    /\ ry_trace = <<>>
    /\ ry_pc = IF ry_batch = <<>> THEN "returned" ELSE "loop"

\* the next statement of the loop runs
poll_loop_statement ==
    /\ ry_pc = "loop"
    /\ LET stmts == iteration_statements(ry_idx, ry_batch[ry_idx])
           last == ry_pos = Len(stmts)
       IN /\ ry_trace' = Append(ry_trace, stmts[ry_pos])
          /\ ry_pos' = IF last THEN 1 ELSE ry_pos + 1
          /\ ry_idx' = IF last THEN ry_idx + 1 ELSE ry_idx
          /\ ry_pc' = IF stmts[ry_pos].event = "set_error_raises"
                      THEN "raised"
                      ELSE IF last /\ ry_idx = Len(ry_batch) THEN "returned"
                      ELSE "loop"
    /\ UNCHANGED ry_batch
    /\ FrameYield

\* another green thread takes the turn the sleep gave up
other_greenthread_runs ==
    /\ ry_pc = "loop"
    /\ ry_trace # <<>>
    /\ ry_trace[Len(ry_trace)] = Yield
    /\ ry_trace' = Append(ry_trace, OtherThread)
    /\ UNCHANGED <<ry_batch, ry_idx, ry_pos, ry_pc>>
    /\ FrameYield

NextYield ==
    \/ poll_loop_statement
    \/ other_greenthread_runs

StartYield ==
    /\ InitYield
    /\ IdleSaga
    /\ IdleSpawn
    /\ IdleMig
    /\ IdleDH
    /\ IdlePlug
    /\ IdlePoll
    /\ IdleAttach
    /\ IdleSnap
    /\ IdlePwd
    /\ IdleAgent
    /\ IdleBoot
    /\ IdleRescue
    /\ IdleReboot
    /\ IdleResize
    /\ IdleModExp
    /\ IdleCmp
    /\ IdleLock
    /\ IdleCvm
    /\ IdleSec
    /\ IdleDes
SpecYield == StartYield /\ [][NextYield]_vars

\* the positions of the trace at which a migration was processed
ProcessedAt == {i \in 1..Len(ry_trace) : ry_trace[i].id # 0}

\* the sleeps of the trace between positions i and j
SleepsBetween(i, j) ==
    Cardinality({k \in (i + 1)..(j - 1) : ry_trace[k] = Yield})

\* C33: the loop yields exactly once at the start of the processing of every
\* migration of the batch, the skipped and the failed ones included: before
\* the first migration processed and between any two processed one after the
\* other there is exactly one sleep, and the migrations are processed in the
\* order of the batch.
C33_YieldBeforeEveryMigration ==
    /\ \A i \in ProcessedAt :
           LET before == {j \in ProcessedAt : j < i}
               prev == IF before = {} THEN 0
                       ELSE CHOOSE j \in before : \A k \in before : k <= j
           IN /\ SleepsBetween(prev, i) = 1
              /\ ry_trace[i].id = Cardinality(before) + 1
              /\ ry_trace[i].event = ry_batch[ry_trace[i].id]
    /\ ry_pc = "returned" => Cardinality(ProcessedAt) = Len(ry_batch)

\* C33 witness: a skipped migration and one whose confirm raised, each
\* preceded by its own sleep, with another thread running in between
C33_Witness ==
    /\ ry_pc = "returned"
    /\ ry_batch = <<"not_found", "confirm_raises">>
    /\ ry_trace = <<Yield, Processed(1, "not_found"), Yield, OtherThread,
                    Processed(2, "confirm_raises")>>

(***************************************************************************)
(* rescue, unrescue and the boot-lock (vmops.py:584-596, 1175-1220)        *)
(***************************************************************************)
\* the statements of rescue after the lookup of the rescue VM
rescue_statements ==
    <<"_get_vm_opaque_ref", "_shutdown", "_acquire_bootlock", "spawn",
      "lookup", "_find_root_vdi_ref", "create_vbd", "VBD.plug">>

\* the statements of unrescue after the lookup of the rescue VM
unrescue_statements ==
    <<"_get_vm_opaque_ref", "_destroy_rescue_instance", "_release_bootlock",
      "_start">>

LockStatements ==
    IF bl_pc = "rescue" THEN rescue_statements ELSE unrescue_statements

\* how a statement can end; spawn that raises has rolled the rescue VM back
\* or has left its record behind, _shutdown logs a XenAPI.Failure
StatementOutcomes(stmt) ==
    CASE stmt = "spawn" -> {"ok", "raises_rolled_back", "raises_vm_left"}
      [] stmt = "_shutdown" -> {"ok", "failure_logged", "raises"}
      [] OTHER -> {"ok", "raises"}

Ended(op, result, at) == [op |-> op, result |-> result, at |-> at]

InitLock ==
    /\ bl_pc = "idle"
    /\ bl_idx = 0
    /\ bl_bootlock = FALSE
    /\ bl_rescue_vm = FALSE
    /\ bl_power \in {"Running", "Halted"}
    /\ bl_last = <<>>
    /\ bl_count = 0

\* rescue is called: the lookup of <name>-rescue (vmops.py:1183-1187)
rescue ==
    /\ bl_pc = "idle"
    /\ bl_count < MaxRescueCalls
    /\ bl_count' = bl_count + 1
    /\ IF bl_rescue_vm
       THEN /\ bl_last' = <<Ended("rescue", "RuntimeError", "lookup")>>
            /\ UNCHANGED <<bl_pc, bl_idx>>
       ELSE /\ bl_pc' = "rescue"
            /\ bl_idx' = 1
            /\ bl_last' = <<>>
    /\ UNCHANGED <<bl_bootlock, bl_rescue_vm, bl_power>>
    /\ FrameLock

\* unrescue is called: the lookup of <name>-rescue (vmops.py:1210-1213)
unrescue ==
    /\ bl_pc = "idle"
    /\ bl_count < MaxRescueCalls
    /\ bl_count' = bl_count + 1
    /\ IF ~bl_rescue_vm
       THEN /\ bl_last' =
                   <<Ended("unrescue", "InstanceNotInRescueMode", "lookup")>>
            /\ UNCHANGED <<bl_pc, bl_idx>>
       ELSE /\ bl_pc' = "unrescue"
            /\ bl_idx' = 1
            /\ bl_last' = <<>>
    /\ UNCHANGED <<bl_bootlock, bl_rescue_vm, bl_power>>
    /\ FrameLock

\* the next statement of rescue (vmops.py:1189-1200) or of unrescue
\* (vmops.py:1215-1220) runs and ends as outcome says
lock_statement(outcome) ==
    /\ bl_pc \in {"rescue", "unrescue"}
    /\ LET stmt == LockStatements[bl_idx]
           raised == outcome \notin {"ok", "failure_logged"}
           last == bl_idx = Len(LockStatements)
       IN /\ outcome \in StatementOutcomes(stmt)
          /\ (stmt = "_shutdown" /\ bl_power = "Halted") => outcome = "ok"
          /\ bl_bootlock' =
                 IF outcome # "ok" THEN bl_bootlock
                 ELSE IF stmt = "_acquire_bootlock" THEN TRUE
                 ELSE IF stmt = "_release_bootlock" THEN FALSE
                 ELSE bl_bootlock
          /\ bl_rescue_vm' =
                 IF stmt = "spawn"
                 THEN outcome \in {"ok", "raises_vm_left"}
                 ELSE IF stmt = "_destroy_rescue_instance" /\ outcome = "ok"
                 THEN FALSE
                 ELSE bl_rescue_vm
          /\ bl_power' =
                 IF outcome # "ok" THEN bl_power
                 ELSE IF stmt = "_shutdown" THEN "Halted"
                 ELSE IF stmt = "_start" THEN "Running"
                 ELSE bl_power
          /\ IF raised
             THEN /\ bl_pc' = "idle"
                  /\ bl_last' = <<Ended(bl_pc, "raised", stmt)>>
                  /\ UNCHANGED bl_idx
             ELSE IF last
             THEN /\ bl_pc' = "idle"
                  /\ bl_last' = <<Ended(bl_pc, "returned", stmt)>>
                  /\ UNCHANGED bl_idx
             ELSE /\ bl_idx' = bl_idx + 1
                  /\ UNCHANGED <<bl_pc, bl_last>>
    /\ UNCHANGED bl_count
    /\ FrameLock

NextLock ==
    \/ rescue
    \/ unrescue
    \/ \E outcome \in {"ok", "failure_logged", "raises", "raises_rolled_back",
                       "raises_vm_left"} : lock_statement(outcome)

StartLock ==
    /\ InitLock
    /\ IdleSaga
    /\ IdleSpawn
    /\ IdleMig
    /\ IdleDH
    /\ IdlePlug
    /\ IdlePoll
    /\ IdleAttach
    /\ IdleSnap
    /\ IdlePwd
    /\ IdleAgent
    /\ IdleBoot
    /\ IdleRescue
    /\ IdleReboot
    /\ IdleResize
    /\ IdleModExp
    /\ IdleCmp
    /\ IdleYield
    /\ IdleCvm
    /\ IdleSec
    /\ IdleDes
SpecLock == StartLock /\ [][NextLock]_vars

\* C35, first part: while a rescue VM exists the original VM is boot-locked
C35_LockedWhileRescued == bl_rescue_vm => bl_bootlock

\* C35, second part: rescue has acquired the boot-lock when it spawns, and
\* refuses when a rescue VM exists
C35_LockBeforeSpawn ==
    /\ (bl_pc = "rescue" /\ bl_idx >= 4) => bl_bootlock
    /\ (bl_pc = "rescue" /\ bl_idx <= 4) => ~bl_rescue_vm

\* C35, third part: unrescue releases the boot-lock only after the rescue VM
\* was destroyed, and starts the original VM after that
C35_ReleaseAfterDestroy ==
    /\ (bl_pc = "unrescue" /\ bl_idx >= 3) => ~bl_rescue_vm
    /\ (bl_pc = "unrescue" /\ bl_idx <= 3) => bl_bootlock
    /\ (bl_last # <<>> /\ bl_last[1] = Ended("unrescue", "returned", "_start"))
           => (~bl_bootlock /\ ~bl_rescue_vm /\ bl_power = "Running")

\* C35, last part: when spawn fails inside rescue the original VM is not
\* left boot-locked with no rescue VM
C35_SpawnFailureKeepsNoLock ==
    (bl_last # <<>> /\ bl_last[1] = Ended("rescue", "raised", "spawn"))
        => ~(bl_bootlock /\ ~bl_rescue_vm)

\* C35: the four parts together
C35_AsStated ==
    /\ C35_LockedWhileRescued
    /\ C35_LockBeforeSpawn
    /\ C35_ReleaseAfterDestroy
    /\ C35_SpawnFailureKeepsNoLock

\* C35 witness: spawn raised inside rescue and rolled the rescue VM back;
\* the original VM is halted and boot-locked and no rescue VM exists
C35_Witness ==
    /\ bl_pc = "idle"
    /\ bl_last = <<Ended("rescue", "raised", "spawn")>>
    /\ bl_bootlock
    /\ ~bl_rescue_vm
    /\ bl_power = "Halted"

(***************************************************************************)
(* _create_vm inside create_vm_step (vmops.py:303-313, 362-421), called by *)
(* two green threads for the same instance name                            *)
(***************************************************************************)
Callers == {"t1", "t2"}

\* the statements of _create_vm that call out, in order
create_vm_statements ==
    <<"VMHelper.lookup", "ensure_free_mem", "determine_is_pv",
      "VMHelper.create_vm", "_attach_disks", "_create_vifs",
      "inject_network_info", "inject_hostname">>

\* VMHelper.create_vm adds a VM record under the instance's name label; the
\* host keeps records of the same label side by side
records_after_create(records, t) == records \cup {t}

\* create_vm_step registers undo_create_vm once _create_vm has returned
registers_undo(pc) == pc = "_create_vm"

InitCvm ==
    /\ cvm_records \in {{}, {"earlier"}}
    /\ cvm_pc = [t \in Callers |-> "idle"]
    /\ cvm_idx = [t \in Callers |-> 1]
    /\ cvm_undo = [t \in Callers |-> FALSE]
    /\ cvm_failed = [t \in Callers |-> None]

\* spawn of caller t reaches create_vm_step
create_vm_step(t) ==
    /\ cvm_pc[t] = "idle"
    /\ cvm_pc' = [cvm_pc EXCEPT ![t] = "_create_vm"]
    /\ UNCHANGED <<cvm_records, cvm_idx, cvm_undo, cvm_failed>>
    /\ FrameCvm

\* the next statement of _create_vm of caller t runs; each one calls the
\* hypervisor and so lets the other caller run before the next
create_vm_statement(t, outcome) ==
    /\ cvm_pc[t] = "_create_vm"
    /\ LET stmt == create_vm_statements[cvm_idx[t]]
           raises == \/ outcome = "raises"
                     \/ stmt = "VMHelper.lookup" /\ cvm_records # {}
           last == cvm_idx[t] = Len(create_vm_statements)
       IN /\ cvm_records' =
                 IF stmt = "VMHelper.create_vm" /\ ~raises
                 THEN records_after_create(cvm_records, t)
                 ELSE cvm_records
          /\ cvm_failed' =
                 IF ~raises THEN cvm_failed
                 ELSE IF outcome = "ok"
                 THEN [cvm_failed EXCEPT ![t] = "InstanceExists"]
                 ELSE [cvm_failed EXCEPT ![t] = stmt]
          /\ cvm_pc' = [cvm_pc EXCEPT ![t] =
                 IF raises THEN "rollback"
                 ELSE IF last THEN "later_steps" ELSE "_create_vm"]
          /\ cvm_idx' = [cvm_idx EXCEPT ![t] =
                 IF raises \/ last THEN cvm_idx[t] ELSE cvm_idx[t] + 1]
          /\ cvm_undo' = [cvm_undo EXCEPT ![t] =
                 ~raises /\ last /\ registers_undo(cvm_pc[t])]
    /\ FrameCvm

\* the steps of spawn after create_vm_step return or one of them raises
later_steps(t, outcome) ==
    /\ cvm_pc[t] = "later_steps"
    /\ cvm_pc' = [cvm_pc EXCEPT ![t] =
                     IF outcome = "ok" THEN "returned" ELSE "rollback"]
    /\ cvm_failed' = [cvm_failed EXCEPT ![t] =
                         IF outcome = "ok" THEN None ELSE "later_steps"]
    /\ UNCHANGED <<cvm_records, cvm_idx, cvm_undo>>
    /\ FrameCvm

\* rollback_and_reraise: undo_create_vm, when it is on the stack, destroys
\* the VM record (outcome "ok") or fails and is logged; the error is raised
create_vm_rollback(t, outcome) ==
    /\ cvm_pc[t] = "rollback"
    /\ ~cvm_undo[t] => outcome = "ok"
    /\ cvm_records' = IF cvm_undo[t] /\ outcome = "ok"
                     THEN cvm_records \ {t} ELSE cvm_records
    /\ cvm_pc' = [cvm_pc EXCEPT ![t] = "raised"]
    /\ UNCHANGED <<cvm_idx, cvm_undo, cvm_failed>>
    /\ FrameCvm

NextCvm ==
    \/ \E t \in Callers : create_vm_step(t)
    \/ \E t \in Callers, outcome \in Outcomes :
           create_vm_statement(t, outcome)
    \/ \E t \in Callers, outcome \in Outcomes : later_steps(t, outcome)
    \/ \E t \in Callers, outcome \in Outcomes : create_vm_rollback(t, outcome)

StartCvm ==
    /\ InitCvm
    /\ IdleSaga
    /\ IdleSpawn
    /\ IdleMig
    /\ IdleDH
    /\ IdlePlug
    /\ IdlePoll
    /\ IdleAttach
    /\ IdleSnap
    /\ IdlePwd
    /\ IdleAgent
    /\ IdleBoot
    /\ IdleRescue
    /\ IdleReboot
    /\ IdleResize
    /\ IdleModExp
    /\ IdleCmp
    /\ IdleYield
    /\ IdleLock
    /\ IdleSec
    /\ IdleDes
SpecCvm == StartCvm /\ [][NextCvm]_vars

\* the statements of _create_vm that follow VMHelper.create_vm
AfterCreate ==
    {"_attach_disks", "_create_vifs", "inject_network_info",
     "inject_hostname"}

\* C36: when create_vm_step failed after the VM record was created, the
\* rollback has destroyed that record: a spawn that raised there has left no
\* VM record of its own.
C36_AsStated ==
    \A t \in Callers :
        (cvm_pc[t] = "raised" /\ cvm_failed[t] \in AfterCreate)
            => t \notin cvm_records

\* C36, the case the code covers: a step after create_vm_step failed and
\* undo_create_vm returned; the VM record is gone
C36_LaterFailureDestroysVm ==
    \A t \in Callers :
        (cvm_pc[t] = "raised" /\ cvm_failed[t] = "later_steps"
             /\ t \in cvm_records) => cvm_undo[t]

\* C36 witness: _attach_disks raised inside _create_vm, no undo_create_vm
\* was registered, spawn raised and the VM record it created is still there
C36_Witness ==
    /\ cvm_pc["t1"] = "raised"
    /\ cvm_failed["t1"] = "_attach_disks"
    /\ ~cvm_undo["t1"]
    /\ "t1" \in cvm_records
    /\ cvm_pc["t2"] = "idle"

\* the callers that have created a VM record so far
Creators == cvm_records \ {"earlier"}

\* C37: no second VM record is created under a name label in use: a caller
\* that finds a VM of the name raises InstanceExists and creates nothing, and
\* the host never holds two records of the name, also when two calls of
\* _create_vm for the name are interleaved.
C37_AsStated ==
    /\ Cardinality(cvm_records) <= 1
    /\ \A t \in Callers :
           cvm_failed[t] = "InstanceExists" => t \notin cvm_records

\* C37, one call at a time: when the callers do not overlap between the
\* lookup and VMHelper.create_vm, the host never holds two records
C37_UniqueWhenNotInterleaved ==
    ("earlier" \in cvm_records \/ \E t \in Callers : cvm_pc[t] = "idle")
        => Cardinality(cvm_records) <= 1

\* C37 witness: both callers looked the name up before either created its
\* VM; both lookups found nothing and the host holds two records of the name
C37_Witness ==
    /\ cvm_records = {"t1", "t2"}
    /\ cvm_failed = [t \in Callers |-> None]
    /\ cvm_pc = [t \in Callers |-> "returned"]

(***************************************************************************)
(* The values set_admin_password hands to the agent, to the log and to     *)
(* openssl (vmops.py:929-963, 1492-1537, 1613-1627); a value is named by   *)
(* the variable that holds it                                              *)
(***************************************************************************)
Effect(sink, by, values) == [sink |-> sink, by |-> by, values |-> values]

\* the arguments of the agent call: key_init_args or password_args, the
\* request id added by _make_agent_call, the dom_id added by
\* _make_plugin_call
agent_call_args(method) ==
    {IF method = "key_init" THEN "pub" ELSE "enc_pass", "id", "dom_id"}

\* a plausible slip: the failure message formatted from every local
failure_log_values_all_locals(method) ==
    {"resp", "new_pass", "pub", "private", "shared"}

\* 'Failed to exchange keys: %(resp)r', 'Failed to update password:
\* %(resp)r' (vmops.py:943-945, 958-960)
failure_log_values(method) == {"resp"}

\* what the agent call logs before it hands back a response that is not the
\* agent's own (vmops.py:1502-1506, 1523-1536)
agent_call_logs(method, outcome) ==
    CASE outcome \in {"timeout", "notimplemented"} ->
             <<Effect("log", "_make_plugin_call",
                      {"method"} \cup agent_call_args(method))>>
      [] outcome = "error" ->
             <<Effect("log", "_make_plugin_call",
                      {"method", "e"} \cup agent_call_args(method))>>
      [] outcome = "invalid" ->
             <<Effect("log", "_make_agent_call",
                      {"method", "ret"} \cup agent_call_args(method))>>
      [] OTHER -> <<>>

\* the ways an agent call ends: the success code, another return code of
\* the agent, a plugin failure of one of the three kinds, a response that is
\* not JSON, or an exception of the call itself
AgentCallOutcomes ==
    {"success", "failure_code", "timeout", "notimplemented", "error",
     "invalid", "raises"}

\* utils.execute: runs the command and returns its output and error text;
\* taken to write no log record of the arguments it is given
execute_logs(argv_values) == <<>>

InitSec ==
    /\ sec_pc = "key_init"
    /\ sec_new_pass \in Passwords
    /\ sec_effects = <<>>
    /\ sec_exc = None

\* key_init or password is sent and answered (vmops.py:940-945, 955-963)
sec_agent_call(outcome) ==
    /\ sec_pc \in {"key_init", "password"}
    /\ LET sent == <<Effect("agent", sec_pc, agent_call_args(sec_pc))>>
       IN CASE outcome = "success" ->
                   /\ sec_effects' = sec_effects \o sent
                   /\ sec_pc' = IF sec_pc = "key_init" THEN "encrypt"
                                ELSE "returned"
                   /\ UNCHANGED sec_exc
            [] outcome = "raises" ->
                   /\ sec_effects' = sec_effects \o sent
                   /\ sec_pc' = "raised"
                   /\ sec_exc' = "agent call raised"
            [] OTHER ->
                   /\ sec_effects' =
                          sec_effects \o sent
                              \o agent_call_logs(sec_pc, outcome)
                              \o <<Effect("log", "set_admin_password",
                                          failure_log_values(sec_pc))>>
                   /\ sec_pc' = "raised"
                   /\ sec_exc' = IF sec_pc = "key_init"
                                 THEN "Failed to exchange keys"
                                 ELSE "Failed to update password"
    /\ UNCHANGED sec_new_pass
    /\ FrameSec

\* the agent's public value is parsed (outcome "ValueError" when it is no
\* number), the secret computed, and openssl run with the secret in its
\* arguments and the password on its input (vmops.py:948-953, 1613-1621)
sec_encrypt(outcome) ==
    /\ sec_pc = "encrypt"
    /\ IF outcome = "ValueError"
       THEN /\ sec_exc' = "ValueError"
            /\ sec_pc' = "raised"
            /\ UNCHANGED sec_effects
       ELSE /\ sec_effects' =
                   Append(sec_effects,
                          Effect("execute", "_run_ssl",
                                 {"shared", "new_pass"}))
                       \o execute_logs({"shared"})
            /\ sec_exc' = IF outcome = "ok" THEN None ELSE "OpenSSL error"
            /\ sec_pc' = IF outcome = "ok" THEN "password" ELSE "raised"
    /\ UNCHANGED sec_new_pass
    /\ FrameSec

NextSec ==
    \/ \E outcome \in AgentCallOutcomes : sec_agent_call(outcome)
    \/ \E outcome \in {"ok", "err", "ValueError"} : sec_encrypt(outcome)

StartSec ==
    /\ InitSec
    /\ IdleSaga
    /\ IdleSpawn
    /\ IdleMig
    /\ IdleDH
    /\ IdlePlug
    /\ IdlePoll
    /\ IdleAttach
    /\ IdleSnap
    /\ IdlePwd
    /\ IdleAgent
    /\ IdleBoot
    /\ IdleRescue
    /\ IdleReboot
    /\ IdleResize
    /\ IdleModExp
    /\ IdleCmp
    /\ IdleYield
    /\ IdleLock
    /\ IdleCvm
    /\ IdleDes
SpecSec == StartSec /\ [][NextSec]_vars

destroy_statements(args) ==
    <<"is_snapshot">>
        \o (IF args.shutdown THEN <<"_shutdown">> ELSE <<>>)
        \o <<"_safe_destroy_vdis">>
        \o (IF args.destroy_kernel_ramdisk
            THEN <<"_destroy_kernel_ramdisk">> ELSE <<>>)
        \o <<"_destroy_vm", "unplug_vifs">>
        \o (IF ~args.is_snapshot THEN <<"unfilter_instance">> ELSE <<>>)

\* _destroy_kernel_ramdisk: "skipped" with neither file, the exception with
\* one of the two, else the plugin call
kernel_ramdisk_outcomes(args) ==
    IF ~args.kernel_id /\ ~args.ramdisk_id THEN {"skipped"}
    ELSE IF ~(args.kernel_id /\ args.ramdisk_id)
    THEN {"InstanceUnacceptable"}
    ELSE {"ok", "raises"}

\* how a statement can end: _shutdown and _destroy_vm log a XenAPI.Failure,
\* _safe_destroy_vdis a StorageError
destroy_outcomes(stmt, args) ==
    CASE stmt = "_destroy_kernel_ramdisk" -> kernel_ramdisk_outcomes(args)
      [] stmt \in {"_shutdown", "_safe_destroy_vdis", "_destroy_vm"} ->
             {"ok", "failure_logged", "raises"}
      [] OTHER -> {"ok", "raises"}

DestroyArgs ==
    [vm_ref : {None, "vm"}, shutdown : BOOLEAN,
     destroy_kernel_ramdisk : BOOLEAN, is_snapshot : BOOLEAN,
     kernel_id : BOOLEAN, ramdisk_id : BOOLEAN]

InitDes ==
    /\ ds_args \in DestroyArgs
    /\ ds_pc = "_destroy"
    /\ ds_idx = 1
    /\ ds_calls = <<>>
    /\ ds_exc = None

\* vmops.py:1132-1135
destroy_without_vm ==
    /\ ds_pc = "_destroy"
    /\ ds_args.vm_ref = None
    /\ ds_pc' = "returned"
    /\ UNCHANGED <<ds_idx, ds_args, ds_calls, ds_exc>>
    /\ FrameDes

\* the next statement of _destroy runs (vmops.py:1136-1153)
destroy_statement(outcome) ==
    /\ ds_pc = "_destroy"
    /\ ds_args.vm_ref # None
    /\ LET stmts == destroy_statements(ds_args)
           stmt == stmts[ds_idx]
           raised == outcome \in {"raises", "InstanceUnacceptable"}
       IN /\ outcome \in destroy_outcomes(stmt, ds_args)
          /\ ds_calls' = Append(ds_calls, [op |-> stmt, outcome |-> outcome])
          /\ ds_exc' = IF raised
                       THEN (IF outcome = "raises" THEN stmt ELSE outcome)
                       ELSE None
          /\ ds_pc' = IF raised THEN "raised"
                      ELSE IF ds_idx = Len(stmts) THEN "returned"
                      ELSE "_destroy"
          /\ ds_idx' = IF raised \/ ds_idx = Len(stmts) THEN ds_idx
                       ELSE ds_idx + 1
    /\ UNCHANGED ds_args
    /\ FrameDes

NextDes ==
    \/ destroy_without_vm
    \/ \E outcome \in {"ok", "failure_logged", "raises", "skipped",
                       "InstanceUnacceptable"} : destroy_statement(outcome)

StartDes ==
    /\ InitDes
    /\ IdleSaga
    /\ IdleSpawn
    /\ IdleMig
    /\ IdleDH
    /\ IdlePlug
    /\ IdlePoll
    /\ IdleAttach
    /\ IdleSnap
    /\ IdlePwd
    /\ IdleAgent
    /\ IdleBoot
    /\ IdleRescue
    /\ IdleReboot
    /\ IdleResize
    /\ IdleModExp
    /\ IdleCmp
    /\ IdleYield
    /\ IdleLock
    /\ IdleCvm
    /\ IdleSec
SpecDes == StartDes /\ [][NextDes]_vars

\* the place of a statement in the order the claim gives
DestroyRank(op) ==
    CASE op = "is_snapshot" -> 0
      [] op = "_shutdown" -> 1
      [] op = "_safe_destroy_vdis" -> 2
      [] op = "_destroy_kernel_ramdisk" -> 3
      [] op = "_destroy_vm" -> 4
      [] op = "unplug_vifs" -> 5
      [] op = "unfilter_instance" -> 6

DestroyRan(op) == \E i \in 1..Len(ds_calls) : ds_calls[i].op = op

\* C39, first part: without a VM reference _destroy does nothing
C39_NoVmNoOp == ds_args.vm_ref = None => ds_calls = <<>> /\ ds_pc # "raised"

\* C39, second part: shutdown if asked, VDIs, kernel and ramdisk, VM record,
\* VIFs, filters, in this order; no filter removal for a snapshot
C39_Order ==
    /\ \A i, j \in 1..Len(ds_calls) :
           i < j => DestroyRank(ds_calls[i].op) < DestroyRank(ds_calls[j].op)
    /\ DestroyRan("_shutdown") => ds_args.shutdown
    /\ DestroyRan("unfilter_instance") => ~ds_args.is_snapshot
    /\ (ds_pc = "returned" /\ ds_args.vm_ref # None) =>
           /\ DestroyRan("_safe_destroy_vdis")
           /\ DestroyRan("_destroy_vm")
           /\ DestroyRan("unplug_vifs")
           /\ DestroyRan("_shutdown") <=> ds_args.shutdown
           /\ DestroyRan("unfilter_instance") <=> ~ds_args.is_snapshot

\* C39, last part: with exactly one of kernel and ramdisk
\* InstanceUnacceptable is raised before any disk or the VM record was
\* destroyed
C39_RaisesBeforeDestroying ==
    ds_exc = "InstanceUnacceptable" =>
        /\ ~DestroyRan("_safe_destroy_vdis")
        /\ ~DestroyRan("_destroy_vm")

\* C39: the three parts together
C39_AsStated ==
    /\ C39_NoVmNoOp
    /\ C39_Order
    /\ C39_RaisesBeforeDestroying

\* C39 witness: the instance has a kernel and no ramdisk; the VDIs were
\* destroyed, then InstanceUnacceptable was raised, the VM record is left
C39_Witness ==
    /\ ds_pc = "raised"
    /\ ds_exc = "InstanceUnacceptable"
    /\ ds_args.kernel_id /\ ~ds_args.ramdisk_id
    /\ \E i \in 1..Len(ds_calls) :
           ds_calls[i] = [op |-> "_safe_destroy_vdis", outcome |-> "ok"]
    /\ ~DestroyRan("_destroy_vm")

=============================================================================
